------------------------- MODULE PageFreeListProofs -------------------------
(***************************************************************************)
(* check_page_free_list relinks every list of free pages as it should: a   *)
(* stable partition, done in place through two pointers to pointers.  And  *)
(* the two walks over the list that follow come to the right verdict,      *)
(* although the first one destroys what it walks on.                       *)
(***************************************************************************)
EXTENDS PageFreeList, FiniteSetTheorems, TLAPS

(* The list by position; behind its end is the null pointer.               *)
At(j) == IF j <= Len(before) THEN before[j] ELSE NULL

(* Behind position k the links are those of the list as it was.            *)
Chain(k) == \A j \in k + 1 .. Len(before) : link[before[j]] = At(j + 1)

(* The pages of type t up to position k, behind pp1 or pp2 as position 0.  *)
Of(t, k) == {0} \cup {j \in 1 .. k : pagetype(before[j]) = t}

Local(t)     == IF t = 0 THEN PP1 ELSE PP2
CellAt(t, j) == IF j = 0 THEN Local(t) ELSE before[j]

Next2(S, a, b) == a < b /\ \A m \in S : ~(a < m /\ m < b)

(* The pages of type t up to position k hang on their local, in order, and *)
(* tp[t] points to the link of the last.                                   *)
Hung(t, k, last) ==
  /\ last \in Of(t, k) /\ tp[t] = CellAt(t, last)
  /\ \A j \in Of(t, k) : j <= last
  /\ \A a \in Of(t, k) :
       a = last \/ \E b \in Of(t, k) : /\ Next2(Of(t, k), a, b)
                                       /\ link[CellAt(t, a)] = before[b]

Relinking ==
  /\ only_low_memory /\ before # <<>>
  /\ \E k \in 0 .. Len(before) :
       /\ pp = At(k + 1)
       /\ Chain(k)
       /\ \E l \in Of(0, k) : Hung(0, k, l)
       /\ \E l \in Of(1, k) : Hung(1, k, l)

Unchecked ==
  /\ tp[0] = PP1 /\ tp[1] = PP2
  /\ page_free_list = At(1)
  /\ Chain(0)

PInv ==
  /\ PageTypeOK
  /\ Distinct(before)
  /\ pc = "page_init" => \A j \in DOMAIN before : before[j] < i
  /\ pc \in {"page_init", "call"} => Unchecked
  /\ pc = "relink" => Relinking
  /\ Relinked

-----------------------------------------------------------------------------

LEMMA TypeIsBit ==
  ASSUME NEW p
  PROVE  pagetype(p) \in {0, 1}
BY DEF pagetype

(* Ahead in terms of positions.                                            *)
LEMMA AheadByPosition ==
  ASSUME PageTypeOK, Distinct(before),
         NEW a \in DOMAIN before, NEW b \in DOMAIN before
  PROVE  Ahead(before[a], before[b]) <=>
           \/ pagetype(before[a]) < pagetype(before[b])
           \/ pagetype(before[a]) = pagetype(before[b]) /\ a < b
<1>1. \A j, k \in DOMAIN before : before[j] = before[k] => j = k
  BY DEF Distinct
<1> QED
  BY <1>1 DEF Ahead

LEMMA InitPInv ==
  ASSUME PageAssumption, Init
  PROVE  PInv
<1>1. before \in Seq(Pages) /\ Distinct(before)
  <2>1. CASE before = <<>>
    BY <2>1 DEF Distinct
  <2>2. CASE before \in Lists
    BY <2>2 DEF PageAssumption
  <2> QED
    BY <2>1, <2>2 DEF Init
<1>2. /\ \A j \in 1 .. Len(before) : before[j] \in Pages
      /\ DOMAIN before = 1 .. Len(before) /\ Len(before) \in Nat
  BY <1>1
<1>3. ASSUME NEW j \in 1 .. Len(before)
      PROVE  Linked(before)[before[j]] = At(j + 1)
  <2> DEFINE k == CHOOSE k \in DOMAIN before : before[k] = before[j]
  <2>1. k \in DOMAIN before /\ before[k] = before[j]
    BY <1>2
  <2>2. k = j
    BY <1>1, <1>2, <2>1 DEF Distinct
  <2>3. before[j] \in Cells
    BY <1>2 DEF Cells
  <2>4. Linked(before)[before[j]]
          = IF k < Len(before) THEN before[k + 1] ELSE NULL
    BY <1>2, <2>3 DEF Linked
  <2> HIDE DEF k
  <2> QED
    BY <1>2, <2>2, <2>4 DEF At
<1>4. link = Linked(before)
  BY DEF Init
<1>5. Chain(0)
  BY <1>3, <1>4 DEF Chain
<1>6. page_free_list = At(1)
  <2>1. CASE before = <<>>
    BY <2>1 DEF Init, At
  <2>2. CASE before # <<>>
    <3>1. Len(before) >= 1
      BY <1>1, <2>2
    <3> QED
      BY <2>2, <3>1 DEF Init, At
  <2> QED
    BY <2>1, <2>2
<1>7. link \in [Cells -> Pointers]
  <2>1. ASSUME NEW c \in Cells
        PROVE  Linked(before)[c] \in Pointers
    <3>1. CASE \E k \in DOMAIN before : before[k] = c
      <4>1. PICK k \in DOMAIN before : before[k] = c
        BY <3>1
      <4>2. Linked(before)[c] = At(k + 1)
        BY <4>1, <1>2, <1>3
      <4> QED
        BY <4>2, <1>2 DEF At, Pointers
    <3>2. CASE ~ \E k \in DOMAIN before : before[k] = c
      BY <3>2 DEF Linked, Unlinked, Pointers
    <3> QED
      BY <3>1, <3>2
  <2> QED
    BY <2>1, <1>4 DEF Linked
<1>8. PageTypeOK
  <2>1. tp \in [{0, 1} -> Cells]
    BY DEF Init, Cells
  <2>2. pp \in Pointers /\ only_low_memory \in BOOLEAN
    BY DEF Init, Pointers
  <2>5. i \in 0 .. npages
    BY DEF Init, PageAssumption
  <2>3. page_free_list \in Pointers
    BY <1>6, <1>2 DEF At, Pointers
  <2>4. pc \in {"page_init", "call"}
    BY DEF Init
  <2> QED
    BY <1>1, <1>7, <2>1, <2>2, <2>3, <2>4, <2>5 DEF PageTypeOK
<1>9. Unchecked
  BY <1>5, <1>6 DEF Unchecked, Init
<1>10. pc = "page_init" => \A j \in DOMAIN before : before[j] < i
  BY DEF Init
<1>11. pc \in {"page_init", "call"}
  BY DEF Init
<1> QED
  BY <1>1, <1>8, <1>9, <1>10, <1>11 DEF PInv, Relinked

(* The cells that the positions of the two types stand for.                *)
LEMMA CellsApart ==
  ASSUME PageAssumption, PageTypeOK, Distinct(before),
         NEW k \in 0 .. Len(before), NEW s \in {0, 1}, NEW l \in Of(s, k)
  PROVE  /\ CellAt(s, l) \in Cells
         /\ \A t \in {0, 1} : \A a \in Of(t, k) :
              CellAt(t, a) = CellAt(s, l) => t = s /\ a = l
         /\ \A j \in k + 1 .. Len(before) : before[j] # CellAt(s, l)
<1>1. /\ DOMAIN before = 1 .. Len(before) /\ Len(before) \in Nat
      /\ \A j \in 1 .. Len(before) : before[j] \in Pages
  BY DEF PageTypeOK
<1>2. \A j, m \in 1 .. Len(before) : before[j] = before[m] => j = m
  BY <1>1 DEF Distinct
<1>3. /\ PP1 \notin Pages /\ PP2 \notin Pages /\ PP1 # PP2
  BY DEF PageAssumption, Pages
<1>4. \A t \in {0, 1} : \A a \in Of(t, k) :
        \/ a = 0 /\ CellAt(t, a) = Local(t)
        \/ /\ a \in 1 .. k /\ CellAt(t, a) = before[a]
           /\ pagetype(before[a]) = t
  BY DEF Of, CellAt
<1>5. k \in Nat /\ k <= Len(before)
  BY <1>1
<1>6. CellAt(s, l) \in Cells
  BY <1>1, <1>4, <1>5 DEF Cells, Local
<1>7. ASSUME NEW t \in {0, 1}, NEW a \in Of(t, k),
             CellAt(t, a) = CellAt(s, l)
      PROVE  t = s /\ a = l
  <2>1. CASE a = 0
    <3>1. CellAt(s, l) \notin Pages
      BY <2>1, <1>3, <1>4, <1>7 DEF Local
    <3>2. l = 0
      BY <3>1, <1>1, <1>4, <1>5
    <3> QED
      BY <2>1, <3>2, <1>3, <1>7 DEF CellAt, Local
  <2>2. CASE a # 0
    <3>1. a \in 1 .. k /\ CellAt(t, a) = before[a] /\ pagetype(before[a]) = t
      BY <2>2, <1>4
    <3>6. a \in 1 .. Len(before)
      BY <3>1, <1>5
    <3>7. before[a] \in Pages
      BY <3>6, <1>1
    <3>2. CellAt(s, l) \in Pages
      BY <3>1, <3>7, <1>7
    <3>3. l \in 1 .. k /\ CellAt(s, l) = before[l] /\ pagetype(before[l]) = s
      BY <3>2, <1>3, <1>4 DEF Local
    <3>4. before[a] = before[l]
      BY <3>1, <3>3, <1>7
    <3>5. a = l
      BY <3>1, <3>3, <3>4, <1>2, <1>5
    <3> QED
      BY <3>1, <3>3, <3>5
  <2> QED
    BY <2>1, <2>2
<1>8. ASSUME NEW j \in k + 1 .. Len(before)
      PROVE  before[j] # CellAt(s, l)
  <2>1. before[j] \in Pages /\ j \in 1 .. Len(before) /\ j > k
    BY <1>1, <1>5
  <2>2. CASE l = 0
    BY <2>1, <2>2, <1>3 DEF CellAt, Local
  <2>3. CASE l # 0
    <3>1. l \in 1 .. k /\ CellAt(s, l) = before[l]
      BY <2>3, <1>4
    <3> QED
      BY <2>1, <3>1, <1>2, <1>5
  <2> QED
    BY <2>2, <2>3
<1> QED
  BY <1>6, <1>7, <1>8

LEMMA RelinkStep ==
  ASSUME PageAssumption, PInv, Relink
  PROVE  Relinking'
<1>1. /\ PageTypeOK /\ Distinct(before) /\ Relinking
      /\ pc = "relink" /\ pp # NULL
  BY DEF PInv, Relink
<1>2. /\ DOMAIN before = 1 .. Len(before) /\ Len(before) \in Nat
      /\ \A j \in 1 .. Len(before) : before[j] \in Pages
  BY <1>1 DEF PageTypeOK
<1>3. PICK k \in 0 .. Len(before) :
        /\ pp = At(k + 1) /\ Chain(k)
        /\ \E l \in Of(0, k) : Hung(0, k, l)
        /\ \E l \in Of(1, k) : Hung(1, k, l)
  BY <1>1 DEF Relinking
<1>4. k \in Nat /\ k + 1 \in 1 .. Len(before) /\ pp = before[k + 1]
  BY <1>1, <1>2, <1>3 DEF At
<1>5. PICK s \in {0, 1} : s = pagetype(pp)
  BY TypeIsBit
<1>6. \A t \in {0, 1} : \E l \in Of(t, k) : Hung(t, k, l)
  BY <1>3
<1>7. PICK ls \in Of(s, k) : Hung(s, k, ls)
  BY <1>5, <1>6
<1>8. tp[s] = CellAt(s, ls)
  BY <1>7 DEF Hung
<1>9. /\ tp[s] \in Cells
      /\ \A t \in {0, 1} : \A a \in Of(t, k) :
           CellAt(t, a) = tp[s] => t = s /\ a = ls
      /\ \A j \in k + 1 .. Len(before) : before[j] # tp[s]
  BY <1>1, <1>5, <1>8, CellsApart
<1>10. /\ link' = [link EXCEPT ![tp[s]] = pp]
       /\ tp' = [tp EXCEPT ![s] = pp]
       /\ pp' = link'[pp]
       /\ UNCHANGED <<only_low_memory, before, pc>>
  BY <1>5 DEF Relink, call
<1>11. /\ link'[tp[s]] = pp
       /\ \A c \in Cells : c # tp[s] => link'[c] = link[c]
       /\ tp'[s] = pp
       /\ \A t \in {0, 1} : t # s => tp'[t] = tp[t]
  BY <1>1, <1>5, <1>9, <1>10 DEF PageTypeOK
<1>12. \A j \in k + 1 .. Len(before) : link'[before[j]] = At(j + 1)
  BY <1>2, <1>3, <1>4, <1>9, <1>11 DEF Chain, Cells
<1>13. At(k + 2)' = At(k + 2) /\ (\A j : At(j)' = At(j))
  BY <1>10 DEF At
<1>14. pp' = At(k + 2)'
  BY <1>4, <1>10, <1>12, <1>13
<1>15. Chain(k + 1)'
  BY <1>4, <1>10, <1>12, <1>13 DEF Chain
<1>16. /\ \A t, m : Of(t, m)' = Of(t, m)
       /\ \A t, a : CellAt(t, a)' = CellAt(t, a)
  BY <1>10 DEF Of, CellAt, pagetype, pdx_limit
<1>17. /\ Of(s, k + 1) = Of(s, k) \cup {k + 1}
       /\ \A t \in {0, 1} : t # s => Of(t, k + 1) = Of(t, k)
  <2>1. pagetype(before[k + 1]) = s
    BY <1>4, <1>5
  <2>2. 1 .. k + 1 = (1 .. k) \cup {k + 1}
    BY <1>4
  <2> QED
    BY <2>1, <2>2 DEF Of
<1>18. \A t \in {0, 1} : \A a \in Of(t, k) : a \in 0 .. k
  BY <1>4 DEF Of
<1>19. \A t \in {0, 1} : \A a \in Of(t, k) : CellAt(t, a) \in Cells
  BY <1>1, CellsApart
<1>20. ASSUME NEW t \in {0, 1}, t # s
       PROVE  (\E l \in Of(t, k + 1) : Hung(t, k + 1, l))'
  <2>1. PICK l \in Of(t, k) : Hung(t, k, l)
    BY <1>6
  <2>2. \A a \in Of(t, k) : link'[CellAt(t, a)] = link[CellAt(t, a)]
    BY <1>9, <1>11, <1>19, <1>20
  <2>3. Of(t, k + 1)' = Of(t, k)
    BY <1>16, <1>17, <1>20
  <2>4. /\ tp[t] = CellAt(t, l) /\ tp'[t] = tp[t]
        /\ \A j \in Of(t, k) : j <= l
    BY <2>1, <1>11, <1>20 DEF Hung
  <2>5. \A a \in Of(t, k) :
          a = l \/ \E b \in Of(t, k) : /\ Next2(Of(t, k), a, b)
                                       /\ link'[CellAt(t, a)] = before[b]
    BY <2>1, <2>2 DEF Hung
  <2>6. Hung(t, k + 1, l)'
    BY <2>3, <2>4, <2>5, <1>10, <1>16 DEF Hung, Next2
  <2> QED
    BY <2>3, <2>6
<1>21. (\E l \in Of(s, k + 1) : Hung(s, k + 1, l))'
  <2> DEFINE S == Of(s, k)
             T == Of(s, k + 1)
  <2>1. T = S \cup {k + 1} /\ Of(s, k + 1)' = T
    BY <1>16, <1>17
  <2>2. ls \in S /\ (\A j \in S : j <= ls /\ j \in 0 .. k)
    BY <1>7, <1>5, <1>18 DEF Hung
  <2>3. CellAt(s, k + 1) = pp
    BY <1>4 DEF CellAt
  <2>4. \A j \in T : j <= k + 1
    BY <2>1, <2>2, <1>4
  <2>5. ASSUME NEW a \in T, a # k + 1
        PROVE  \E b \in T : Next2(T, a, b) /\ link'[CellAt(s, a)] = before[b]
    <3>1. a \in S
      BY <2>1, <2>5
    <3>2. CASE a = ls
      <4>1. Next2(T, a, k + 1)
        BY <2>1, <2>2, <3>1, <3>2, <1>4 DEF Next2
      <4>2. link'[CellAt(s, a)] = before[k + 1]
        BY <3>2, <1>4, <1>8, <1>11
      <4> QED
        BY <4>1, <4>2, <2>1
    <3>3. CASE a # ls
      <4>1. PICK b \in S : Next2(S, a, b) /\ link[CellAt(s, a)] = before[b]
        BY <3>1, <3>3, <1>7 DEF Hung
      <4>2. Next2(T, a, b)
        BY <4>1, <2>1, <2>2, <3>1, <1>4 DEF Next2
      <4>3. link'[CellAt(s, a)] = link[CellAt(s, a)]
        BY <3>1, <3>3, <1>5, <1>9, <1>11, <1>19
      <4> QED
        BY <4>1, <4>2, <4>3, <2>1
    <3> QED
      BY <3>2, <3>3
  <2> HIDE DEF S, T
  <2>6. Hung(s, k + 1, k + 1)'
    <3>1. (k + 1 \in Of(s, k + 1))' /\ (tp[s] = CellAt(s, k + 1))'
      BY <2>1, <2>3, <1>11, <1>16
    <3>2. (\A j \in Of(s, k + 1) : j <= k + 1)'
      BY <2>1, <2>4
    <3>3. (\A a \in Of(s, k + 1) :
             a = k + 1 \/ \E b \in Of(s, k + 1) :
                            /\ Next2(Of(s, k + 1), a, b)
                            /\ link[CellAt(s, a)] = before[b])'
      BY <2>1, <2>5, <1>10, <1>16 DEF Next2
    <3> QED
      BY <3>1, <3>2, <3>3 DEF Hung
  <2> QED
    BY <2>6, <2>1
<1>22. \A t \in {0, 1} : (\E l \in Of(t, k + 1) : Hung(t, k + 1, l))'
  BY <1>20, <1>21
<1>23. k + 1 \in 0 .. Len(before') /\ only_low_memory' /\ before' # <<>>
  BY <1>1, <1>4, <1>10 DEF Relinking
<1>24. pp' = At((k + 1) + 1)'
  BY <1>4, <1>14
<1> QED
  BY <1>15, <1>22, <1>23, <1>24 DEF Relinking

(* What follows a page, in terms of the positions of the pages of its      *)
(* type.                                                                   *)
LEMMA FollowsByPosition ==
  ASSUME PageAssumption, PageTypeOK, Distinct(before),
         NEW t \in {0, 1}, NEW a \in Of(t, Len(before)), a # 0
  PROVE  /\ \A b \in Of(t, Len(before)) :
              Next2(Of(t, Len(before)), a, b) => Follows(before[a], before[b])
         /\ \A b \in Of(1, Len(before)) :
              /\ t = 0 /\ \A j \in Of(t, Len(before)) : j <= a
              /\ Next2(Of(1, Len(before)), 0, b)
              => Follows(before[a], before[b])
         /\ (\A j \in Of(t, Len(before)) : j <= a)
              /\ (t = 1 \/ Of(1, Len(before)) = {0})
              => Follows(before[a], NULL)
<1> DEFINE n == Len(before)
<1>1. /\ DOMAIN before = 1 .. n /\ n \in Nat
      /\ \A j \in 1 .. n : before[j] \in Pages
  BY DEF PageTypeOK
<1>2. \A j, m \in 1 .. n :
        Ahead(before[j], before[m]) <=>
          \/ pagetype(before[j]) < pagetype(before[m])
          \/ pagetype(before[j]) = pagetype(before[m]) /\ j < m
  BY <1>1, AheadByPosition
<1>3. \A w \in Listed : \E m \in 1 .. n : w = before[m]
  BY <1>1 DEF Listed
<1>4. \A m \in 1 .. n : before[m] \in Listed /\ before[m] # NULL
  BY <1>1 DEF Listed, PageAssumption, Pages
<1>5. \A u \in {0, 1} : \A m \in 1 .. n :
        m \in Of(u, n) <=> pagetype(before[m]) = u
  BY <1>1 DEF Of
<1>6. a \in 1 .. n /\ pagetype(before[a]) = t
  BY DEF Of
<1>7. \A m \in 1 .. n : pagetype(before[m]) \in {0, 1}
  BY TypeIsBit
<1>8. ASSUME NEW b \in Of(t, n), Next2(Of(t, n), a, b)
      PROVE  Follows(before[a], before[b])
  <2>1. b \in 1 .. n /\ pagetype(before[b]) = t /\ a < b
    BY <1>6, <1>8 DEF Of, Next2
  <2>2. Ahead(before[a], before[b])
    BY <2>1, <1>2, <1>6
  <2>3. ASSUME NEW m \in 1 .. n
        PROVE  ~(Ahead(before[a], before[m]) /\ Ahead(before[m], before[b]))
    <3>1. CASE pagetype(before[m]) = t
      <4>1. ~(a < m /\ m < b)
        BY <3>1, <1>5, <1>8 DEF Next2
      <4> QED
        BY <3>1, <4>1, <2>1, <1>2, <1>6
    <3>2. CASE pagetype(before[m]) # t
      BY <3>2, <2>1, <1>2, <1>6, <1>7
    <3> QED
      BY <3>1, <3>2
  <2>4. \A w \in Listed : ~(Ahead(before[a], w) /\ Ahead(w, before[b]))
    BY <2>3, <1>3
  <2>5. before[b] \in Listed /\ before[b] # NULL
    BY <2>1, <1>4
  <2> QED
    BY <2>2, <2>4, <2>5 DEF Follows
<1>9. ASSUME NEW b \in Of(1, n), t = 0, \A j \in Of(t, n) : j <= a,
             Next2(Of(1, n), 0, b)
      PROVE  Follows(before[a], before[b])
  <2>1. b \in 1 .. n /\ pagetype(before[b]) = 1
    BY <1>9 DEF Of, Next2
  <2>2. Ahead(before[a], before[b])
    BY <2>1, <1>2, <1>6, <1>9
  <2>3. ASSUME NEW m \in 1 .. n
        PROVE  ~(Ahead(before[a], before[m]) /\ Ahead(before[m], before[b]))
    <3>1. CASE pagetype(before[m]) = 0
      <4>1. m <= a
        BY <3>1, <1>5, <1>9
      <4> QED
        BY <3>1, <4>1, <1>1, <1>2, <1>6, <1>9
    <3>2. CASE pagetype(before[m]) = 1
      <4>1. ~(m < b)
        BY <3>2, <1>5, <1>9 DEF Next2
      <4> QED
        BY <3>2, <4>1, <2>1, <1>2
    <3> QED
      BY <3>1, <3>2, <1>7
  <2>4. \A w \in Listed : ~(Ahead(before[a], w) /\ Ahead(w, before[b]))
    BY <2>3, <1>3
  <2>5. before[b] \in Listed /\ before[b] # NULL
    BY <2>1, <1>4
  <2> QED
    BY <2>2, <2>4, <2>5 DEF Follows
<1>10. ASSUME \A j \in Of(t, n) : j <= a, t = 1 \/ Of(1, n) = {0}
       PROVE  Follows(before[a], NULL)
  <2>1. ASSUME NEW m \in 1 .. n
        PROVE  ~Ahead(before[a], before[m])
    <3>1. CASE pagetype(before[m]) = t
      <4>1. m <= a
        BY <3>1, <1>5, <1>10
      <4> QED
        BY <3>1, <4>1, <1>1, <1>2, <1>6
    <3>2. CASE pagetype(before[m]) # t
      <4>1. t = 1
        BY <3>2, <1>5, <1>7, <1>10
      <4> QED
        BY <3>2, <4>1, <1>2, <1>6, <1>7
    <3> QED
      BY <3>1, <3>2
  <2> QED
    BY <2>1, <1>3 DEF Follows
<1> QED
  BY <1>8, <1>9, <1>10

LEMMA JoinStep ==
  ASSUME PageAssumption, PInv, Join
  PROVE  Relinked' /\ \A u \in Listed : Follows(u, link[u])'
<1> DEFINE n == Len(before)
           cut == [link EXCEPT ![tp[1]] = NULL]
<1>1. /\ PageTypeOK /\ Distinct(before) /\ Relinking
      /\ pc = "relink" /\ pp = NULL
  BY DEF PInv, Join, JoinLists
<1>2. /\ DOMAIN before = 1 .. n /\ n \in Nat
      /\ \A j \in 1 .. n : before[j] \in Pages
  BY <1>1 DEF PageTypeOK
<1>3. PICK k \in 0 .. n :
        /\ pp = At(k + 1)
        /\ \E l \in Of(0, k) : Hung(0, k, l)
        /\ \E l \in Of(1, k) : Hung(1, k, l)
  BY <1>1 DEF Relinking
<1>4. k = n
  <2>1. CASE k + 1 \in 1 .. n
    <3>1. pp \in Pages
      BY <2>1, <1>2, <1>3 DEF At
    <3> QED
      BY <3>1, <1>1 DEF PageAssumption, Pages
  <2>2. CASE k + 1 \notin 1 .. n
    <3>1. k \in Nat /\ k <= n
      BY <1>2, <1>3
    <3>2. ~(k + 1 <= n)
      BY <2>2, <3>1, <1>2
    <3>3. \A a, b \in Nat : a <= b /\ ~(a + 1 <= b) => a = b
      OBVIOUS
    <3> QED
      BY <3>1, <3>2, <3>3, <1>2
  <2> QED
    BY <2>1, <2>2
<1>5. PICK l0 \in Of(0, n) : Hung(0, n, l0)
  BY <1>3, <1>4
<1>6. PICK l1 \in Of(1, n) : Hung(1, n, l1)
  BY <1>3, <1>4
<1>7. /\ tp[0] = CellAt(0, l0) /\ tp[0] \in Cells
      /\ tp[1] = CellAt(1, l1) /\ tp[1] \in Cells
  BY <1>1, <1>5, <1>6 DEF Hung, PageTypeOK
<1>8. \A s, t \in {0, 1} : \A l \in Of(s, n), a \in Of(t, n) :
        /\ CellAt(s, l) \in Cells
        /\ CellAt(t, a) = CellAt(s, l) => t = s /\ a = l
  BY <1>1, <1>2, CellsApart
<1>9. 0 \in Of(0, n) /\ 0 \in Of(1, n) /\ CellAt(0, 0) = PP1
        /\ CellAt(1, 0) = PP2
  BY DEF Of, CellAt, Local
<1>10. /\ link' = [cut EXCEPT ![tp[0]] = cut[PP2]]
       /\ page_free_list' = link'[PP1]
       /\ UNCHANGED <<only_low_memory, before>>
  BY DEF Join, JoinLists, call
<1>11. /\ cut[tp[1]] = NULL
       /\ \A c \in Cells : c # tp[1] => cut[c] = link[c]
  BY <1>1, <1>7 DEF PageTypeOK
<1>12. /\ link'[tp[0]] = cut[PP2]
       /\ \A c \in Cells : c # tp[0] => link'[c] = cut[c]
  BY <1>1, <1>7, <1>10 DEF PageTypeOK
<1> HIDE DEF cut
(* The first high page, or none.                                           *)
<1>13. \/ l1 = 0 /\ cut[PP2] = NULL
       \/ l1 # 0 /\ \E b \in Of(1, n) : Next2(Of(1, n), 0, b)
                                        /\ cut[PP2] = before[b]
  <2>1. CASE l1 = 0
    BY <2>1, <1>7, <1>9, <1>11
  <2>2. CASE l1 # 0
    <3>1. PICK b \in Of(1, n) : /\ Next2(Of(1, n), 0, b)
                                /\ link[CellAt(1, 0)] = before[b]
      BY <2>2, <1>6, <1>9 DEF Hung
    <3>2. PP2 # tp[1] /\ PP2 \in Cells
      BY <2>2, <1>7, <1>8, <1>9
    <3> QED
      BY <2>2, <3>1, <3>2, <1>9, <1>11
  <2> QED
    BY <2>1, <2>2
(* The link of every cell that a page or pp1 is.                           *)
<1>14. ASSUME NEW a \in Of(0, n)
       PROVE  link'[CellAt(0, a)] =
                IF a = l0 THEN cut[PP2] ELSE link[CellAt(0, a)]
  BY <1>5, <1>6, <1>7, <1>8, <1>11, <1>12
<1>15. ASSUME NEW a \in Of(1, n)
       PROVE  link'[CellAt(1, a)] =
                IF a = l1 THEN NULL ELSE link[CellAt(1, a)]
  BY <1>5, <1>6, <1>7, <1>8, <1>11, <1>12
<1>16. ASSUME NEW t \in {0, 1}, NEW a \in Of(t, n), a # 0
       PROVE  Follows(before[a], link'[before[a]])
  <2>1. /\ \A b \in Of(t, n) :
               Next2(Of(t, n), a, b) => Follows(before[a], before[b])
        /\ \A b \in Of(1, n) :
             /\ t = 0 /\ \A j \in Of(t, n) : j <= a
             /\ Next2(Of(1, n), 0, b)
             => Follows(before[a], before[b])
        /\ (\A j \in Of(t, n) : j <= a) /\ (t = 1 \/ Of(1, n) = {0})
             => Follows(before[a], NULL)
    BY <1>1, <1>16, FollowsByPosition
  <2>2. CellAt(t, a) = before[a]
    BY <1>16 DEF CellAt
  <2>3. CASE t = 0 /\ a # l0
    <3>1. PICK b \in Of(0, n) : /\ Next2(Of(0, n), a, b)
                                /\ link[CellAt(0, a)] = before[b]
      BY <2>3, <1>5 DEF Hung
    <3> QED
      BY <3>1, <2>1, <2>2, <2>3, <1>14
  <2>4. CASE t = 0 /\ a = l0
    <3>1. \A j \in Of(t, n) : j <= a
      BY <2>4, <1>5 DEF Hung
    <3>2. link'[before[a]] = cut[PP2]
      BY <2>2, <2>4, <1>14
    <3>3. CASE l1 = 0
      <4>1. Of(1, n) = {0}
        BY <3>3, <1>6, <1>2 DEF Hung, Of
      <4> QED
        BY <3>1, <3>2, <3>3, <4>1, <2>1, <1>13
    <3>4. CASE l1 # 0
      BY <3>1, <3>2, <3>4, <2>1, <2>4, <1>13
    <3> QED
      BY <3>3, <3>4
  <2>5. CASE t = 1 /\ a # l1
    <3>1. PICK b \in Of(1, n) : /\ Next2(Of(1, n), a, b)
                                /\ link[CellAt(1, a)] = before[b]
      BY <2>5, <1>6 DEF Hung
    <3> QED
      BY <3>1, <2>1, <2>2, <2>5, <1>15
  <2>6. CASE t = 1 /\ a = l1
    <3>1. \A j \in Of(t, n) : j <= a
      BY <2>6, <1>6 DEF Hung
    <3> QED
      BY <3>1, <2>1, <2>2, <2>6, <1>15
  <2> QED
    BY <2>3, <2>4, <2>5, <2>6
<1>17. \A u \in Listed : \E t \in {0, 1} : \E a \in Of(t, n) :
         a # 0 /\ a \in 1 .. n /\ u = before[a]
  BY <1>2, TypeIsBit DEF Listed, Of
<1>18. \A u \in Listed : Follows(u, link'[u])
  BY <1>16, <1>17
(* The list begins with the first page of the first type there is.         *)
<1>19. /\ page_free_list' \in Listed
       /\ \A w \in Listed : ~Ahead(w, page_free_list')
  <2>1. PICK t \in {0, 1} : \E b \in Of(t, n) :
          /\ Next2(Of(t, n), 0, b) /\ page_free_list' = before[b]
          /\ t = 1 => Of(0, n) = {0}
    <3>1. page_free_list' = IF l0 = 0 THEN cut[PP2] ELSE link[PP1]
      BY <1>9, <1>10, <1>14
    <3>2. CASE l0 # 0
      <4>1. PICK b \in Of(0, n) : /\ Next2(Of(0, n), 0, b)
                                  /\ link[CellAt(0, 0)] = before[b]
        BY <3>2, <1>5, <1>9 DEF Hung
      <4> QED
        BY <3>1, <3>2, <4>1, <1>9
    <3>3. CASE l0 = 0
      <4>1. Of(0, n) = {0}
        BY <3>3, <1>2, <1>5 DEF Hung, Of
      <4>2. 1 \in 1 .. n
        BY <1>1, <1>2 DEF Relinking, PageTypeOK
      <4>3. 1 \in Of(1, n)
        BY <4>1, <4>2, TypeIsBit DEF Of
      <4>4. l1 # 0
        BY <4>3, <1>6 DEF Hung
      <4> QED
        BY <3>1, <3>3, <4>1, <4>4, <1>13
    <3> QED
      BY <3>2, <3>3
  <2>2. PICK b \in Of(t, n) :
          /\ Next2(Of(t, n), 0, b) /\ page_free_list' = before[b]
    BY <2>1
  <2>3. b \in 1 .. n /\ pagetype(before[b]) = t
    BY <2>2 DEF Of, Next2
  <2>4. ASSUME NEW m \in 1 .. n
        PROVE  ~Ahead(before[m], before[b])
    <3>1. Ahead(before[m], before[b]) <=>
            \/ pagetype(before[m]) < pagetype(before[b])
            \/ pagetype(before[m]) = pagetype(before[b]) /\ m < b
      BY <2>3, <1>1, <1>2, AheadByPosition
    <3>2. pagetype(before[m]) = t => m \in Of(t, n)
      BY DEF Of
    <3>3. pagetype(before[m]) = t => ~(m < b)
      BY <3>2, <2>2 DEF Next2
    <3>4. pagetype(before[m]) = 0 => t = 0
      BY <2>1 DEF Of
    <3>5. pagetype(before[m]) \in {0, 1}
      BY TypeIsBit
    <3> QED
      BY <3>1, <3>3, <3>4, <3>5, <2>3
  <2> QED
    BY <2>2, <2>3, <2>4, <1>2 DEF Listed
<1>20. /\ Listed' = Listed
       /\ \A u, v : Ahead(u, v)' <=> Ahead(u, v)
  BY <1>10 DEF Listed, Ahead, pagetype, pdx_limit
<1>21. \A u \in Listed : Follows(u, link[u])'
  BY <1>18, <1>20 DEF Follows
<1> QED
  BY <1>19, <1>20, <1>21 DEF Relinked

LEMMA PageInitStep ==
  ASSUME PageAssumption, PInv, page_init
  PROVE  PInv'
<1>1. /\ PageTypeOK /\ Distinct(before) /\ Unchecked
      /\ pc = "page_init" /\ i < npages
      /\ \A j \in DOMAIN before : before[j] < i
  BY DEF PInv, page_init
<1>2. /\ DOMAIN before = 1 .. Len(before) /\ Len(before) \in Nat
      /\ \A j \in 1 .. Len(before) : before[j] \in Pages
      /\ before \in Seq(Pages)
  BY <1>1 DEF PageTypeOK
<1>3. i \in Pages /\ i + 1 \in 0 .. npages /\ i \in Cells
  BY <1>1 DEF PageTypeOK, PageAssumption, Pages, Cells
<1>4. /\ link' = [link EXCEPT ![i] = page_free_list]
      /\ page_free_list' = i
      /\ before' = <<i>> \o before
      /\ i' = i + 1
      /\ UNCHANGED <<only_low_memory, pp, tp, pc>>
  BY DEF page_init
<1>5. /\ before' \in Seq(Pages)
      /\ Len(before') = Len(before) + 1
      /\ before'[1] = i
      /\ \A j \in 1 .. Len(before) : before'[j + 1] = before[j]
  BY <1>2, <1>3, <1>4
<1>6. ASSUME NEW j \in 1 .. Len(before')
      PROVE  \/ j = 1 /\ before'[j] = i
             \/ /\ j - 1 \in 1 .. Len(before)
                /\ before'[j] = before[j - 1] /\ before'[j] < i
  <2>1. CASE j = 1
    BY <2>1, <1>5
  <2>2. CASE j # 1
    <3>1. j - 1 \in 1 .. Len(before) /\ j = (j - 1) + 1
      BY <2>2, <1>2, <1>5
    <3>2. before'[j] = before[j - 1]
      BY <3>1, <1>5
    <3> QED
      BY <3>1, <3>2, <1>1, <1>2
  <2> QED
    BY <2>1, <2>2
<1>7. DOMAIN before' = 1 .. Len(before')
  BY <1>5
<1>8. Distinct(before')
  <2>1. ASSUME NEW j \in 1 .. Len(before'), NEW k \in 1 .. Len(before'),
               before'[j] = before'[k]
        PROVE  j = k
    <3>1. CASE j = 1
      BY <3>1, <2>1, <1>3, <1>6 DEF Pages
    <3>2. CASE k = 1
      BY <3>2, <2>1, <1>3, <1>6 DEF Pages
    <3>3. CASE j # 1 /\ k # 1
      <4>1. /\ j - 1 \in 1 .. Len(before) /\ k - 1 \in 1 .. Len(before)
            /\ before[j - 1] = before[k - 1]
        BY <3>3, <2>1, <1>6
      <4>2. j - 1 = k - 1
        BY <4>1, <1>1, <1>2 DEF Distinct
      <4> QED
        BY <4>2
    <3> QED
      BY <3>1, <3>2, <3>3
  <2> QED
    BY <2>1, <1>7 DEF Distinct
<1>9. \A j \in DOMAIN before' : before'[j] < i'
  <2>1. ASSUME NEW j \in 1 .. Len(before')
        PROVE  before'[j] < i + 1
    <3>1. before'[j] \in Int /\ i \in Int
      BY <1>2, <1>3, <1>6 DEF Pages
    <3> QED
      BY <3>1, <1>6
  <2> QED
    BY <2>1, <1>4, <1>7
<1>10. PageTypeOK'
  <2>1. link' \in [Cells -> Pointers]
    BY <1>1, <1>4 DEF PageTypeOK
  <2>2. page_free_list' \in Pointers
    BY <1>3, <1>4 DEF Pointers
  <2> QED
    BY <2>1, <2>2, <1>1, <1>3, <1>4, <1>5 DEF PageTypeOK
<1>11. Unchecked'
  <2>1. (page_free_list = At(1))'
    BY <1>2, <1>4, <1>5 DEF At
  <2>2. ASSUME NEW j \in 1 .. Len(before')
        PROVE  link'[before'[j]] = At(j + 1)'
    <3>1. CASE j = 1
      <4>1. link'[before'[j]] = page_free_list
        BY <3>1, <1>1, <1>3, <1>4, <1>5 DEF PageTypeOK
      <4>2. At(j + 1)' = At(1)
        <5>1. CASE Len(before) = 0
          BY <5>1, <3>1, <1>5 DEF At
        <5>2. CASE Len(before) # 0
          <6>1. 1 \in 1 .. Len(before) /\ 2 <= Len(before')
            BY <5>2, <1>2, <1>5
          <6>2. before'[2] = before[1]
            BY <6>1, <1>5
          <6> QED
            BY <6>1, <6>2, <3>1, <1>2 DEF At
        <5> QED
          BY <5>1, <5>2
      <4> QED
        BY <4>1, <4>2, <1>1 DEF Unchecked
    <3>2. CASE j # 1
      <4>1. /\ j - 1 \in 1 .. Len(before)
            /\ before'[j] = before[j - 1] /\ before'[j] < i
        BY <3>2, <1>6
      <4>2. before[j - 1] \in Cells /\ before[j - 1] # i
        BY <4>1, <1>2, <1>3 DEF Cells, Pages
      <4>3. link'[before'[j]] = link[before[j - 1]]
        BY <4>1, <4>2, <1>1, <1>4 DEF PageTypeOK
      <4>4. link[before[j - 1]] = At(j)
        BY <4>1, <1>1, <1>2 DEF Unchecked, Chain
      <4>5. At(j + 1)' = At(j)
        <5>1. CASE j <= Len(before)
          <6>1. j \in 1 .. Len(before) /\ j + 1 <= Len(before')
            BY <5>1, <4>1, <1>2, <1>5
          <6> QED
            BY <6>1, <5>1, <1>5 DEF At
        <5>2. CASE ~(j <= Len(before))
          <6>1. ~(j + 1 <= Len(before'))
            BY <5>2, <1>2, <1>5
          <6> QED
            BY <6>1, <5>2 DEF At
        <5> QED
          BY <5>1, <5>2
      <4> QED
        BY <4>3, <4>4, <4>5
    <3> QED
      BY <3>1, <3>2
  <2>3. Chain(0)'
    BY <2>2 DEF Chain
  <2> QED
    BY <2>1, <2>3, <1>1, <1>4 DEF Unchecked
<1> QED
  BY <1>1, <1>4, <1>8, <1>9, <1>10, <1>11 DEF PInv, Relinked

(* The steps that leave the list alone, but for marks.                     *)
LEMMA RelinkedKept ==
  ASSUME PageTypeOK, PInv,
         UNCHANGED <<page_free_list, before, only_low_memory>>,
         pc \in {"scribble", "assert", "done"} \/ ~only_low_memory,
         \A c \in Cells : link'[c] = link[c] \/ link'[c] = Garbage
  PROVE  Relinked'
<1>1. Listed' = Listed /\ Listed \subseteq Cells
  BY DEF Listed, PageTypeOK, Cells
<1>2. \A u, v : Ahead(u, v)' <=> Ahead(u, v)
  BY DEF Ahead, pagetype, pdx_limit
<1>3. Relinked
  BY DEF PInv
<1>4. CASE ~only_low_memory
  BY <1>4 DEF Relinked
<1>5. CASE only_low_memory
  <2>1. /\ page_free_list' \in Listed'
        /\ (\A w \in Listed : ~Ahead(w, page_free_list))'
    BY <1>1, <1>2, <1>3, <1>5 DEF Relinked
  <2>2. ASSUME NEW u \in Listed
        PROVE  (link[u] = Garbage \/ Follows(u, link[u]))'
    <3>1. CASE link'[u] = Garbage
      BY <3>1
    <3>2. CASE link'[u] # Garbage
      <4>1. link'[u] = link[u]
        BY <3>2, <1>1
      <4>2. Follows(u, link[u])
        BY <3>2, <4>1, <1>3, <1>5 DEF Relinked
      <4> QED
        BY <4>1, <4>2, <1>1, <1>2 DEF Follows
    <3> QED
      BY <3>1, <3>2
  <2> QED
    BY <2>1, <2>2, <1>1 DEF Relinked
<1> QED
  BY <1>4, <1>5

LEMMA NextPInv ==
  ASSUME PageAssumption, PInv, [Next]_vars
  PROVE  PInv'
<1>1. PageTypeOK /\ Distinct(before) /\ Relinked
  BY DEF PInv
<1>2. /\ PP1 \in Cells /\ PP2 \in Cells
      /\ NULL \in Pointers /\ Garbage \in Pointers
  BY DEF Cells, Pointers
<1>3. CASE page_init
  BY <1>3, PageInitStep
<1>4. CASE page_init_done
  <2>1. PageTypeOK' /\ Distinct(before)' /\ pc' = "call"
    BY <1>1, <1>4 DEF page_init_done, PageTypeOK, Distinct, list
  <2>2. Unchecked'
    BY <1>4 DEF PInv, page_init_done, Unchecked, Chain, At, list
  <2> QED
    BY <2>1, <2>2 DEF PInv, Relinked
<1>5. CASE check_page_free_list
  <2>1. /\ pc = "call" /\ Unchecked
        /\ UNCHANGED <<link, page_free_list, i, only_low_memory, before, tp>>
    BY <1>5 DEF PInv, check_page_free_list, list, call
  <2>2. PageTypeOK' /\ Distinct(before)'
    BY <1>1, <1>5, <2>1 DEF check_page_free_list, PageTypeOK, Distinct
  <2>3. CASE page_free_list # NULL /\ only_low_memory
    <3>1. pp' = page_free_list /\ pc' = "relink"
      BY <1>5, <2>3 DEF check_page_free_list
    <3>2. before # <<>> /\ Len(before) \in Nat
      BY <2>1, <2>3, <1>1 DEF Unchecked, At, PageTypeOK
    <3>3. ASSUME NEW t \in {0, 1}
          PROVE  (\E l \in Of(t, 0) : Hung(t, 0, l))'
      <4>1. Of(t, 0)' = {0}
        BY DEF Of
      <4>2. (tp[t] = CellAt(t, 0))'
        BY <2>1 DEF Unchecked, CellAt, Local
      <4> QED
        BY <4>1, <4>2 DEF Hung
    <3>4. Chain(0)' /\ (pp = At(0 + 1))'
      BY <2>1, <3>1 DEF Unchecked, Chain, At
    <3>5. Relinking'
      BY <2>1, <2>3, <3>2, <3>3, <3>4 DEF Relinking
    <3> QED
      BY <2>2, <3>1, <3>5 DEF PInv, Relinked
  <2>4. CASE page_free_list = NULL
    <3>1. pc' = "panic"
      BY <1>5, <2>4 DEF check_page_free_list
    <3> QED
      BY <2>2, <3>1 DEF PInv, Relinked
  <2>5. CASE page_free_list # NULL /\ ~only_low_memory
    <3>1. pc' = "scribble"
      BY <1>5, <2>5 DEF check_page_free_list
    <3> QED
      BY <2>1, <2>2, <2>5, <3>1 DEF PInv, Relinked
  <2> QED
    BY <2>3, <2>4, <2>5
<1>6. CASE Relink
  <2>1. pagetype(pp) \in {0, 1} /\ pc = "relink" /\ pp # NULL
    BY <1>6, TypeIsBit DEF Relink
  <2>2. pp \in Pages
    BY <2>1 DEF PInv, Relinking, At, PageTypeOK
  <2>3. link' \in [Cells -> Pointers] /\ tp' \in [{0, 1} -> Cells]
    BY <1>1, <1>6, <2>1, <2>2 DEF Relink, PageTypeOK, Cells, Pointers
  <2>4. pp' \in Pointers
    BY <1>6, <2>2, <2>3 DEF Relink, Cells
  <2>5. PageTypeOK' /\ Distinct(before)' /\ pc' = "relink"
    BY <1>1, <1>6, <2>1, <2>3, <2>4 DEF Relink, PageTypeOK, Distinct, call
  <2> QED
    BY <1>6, <2>5, RelinkStep DEF PInv, Relinked
<1>7. CASE Join
  <2>1. link' \in [Cells -> Pointers]
    BY <1>1, <1>2, <1>7 DEF Join, JoinLists, PageTypeOK
  <2>2. page_free_list' \in Pointers /\ pp' \in Pointers
    BY <1>2, <1>7, <2>1 DEF Join, JoinLists
  <2>3. PageTypeOK' /\ Distinct(before)' /\ pc' = "scribble"
    BY <1>1, <1>7, <2>1, <2>2 DEF Join, JoinLists, PageTypeOK, Distinct, call
  <2> QED
    BY <1>7, <2>3, JoinStep DEF PInv
<1>8. CASE Scribble
  <2>1. /\ pc = "scribble" /\ pp \in Pages
        /\ UNCHANGED <<page_free_list, i, only_low_memory, before, tp>>
        /\ pc' \in {"scribble", "lost", "fault"}
    BY <1>8 DEF Scribble, call
  <2>2. \A c \in Cells : link'[c] = link[c] \/ link'[c] = Garbage
    BY <1>8 DEF Scribble
  <2>3. link' \in [Cells -> Pointers] /\ pp' \in Pointers
    <3>1. CASE Mapped(pp)
      <4>1. link' = [c \in Cells |->
                       IF c \in Holds[pp] THEN Garbage ELSE link[c]]
        BY <1>8, <3>1 DEF Scribble
      <4>2. link' \in [Cells -> Pointers]
        BY <4>1, <1>1, <1>2 DEF PageTypeOK
      <4>3. pp' = link'[pp] /\ pp \in Cells
        BY <1>8, <2>1, <3>1 DEF Scribble, Cells
      <4> QED
        BY <4>2, <4>3
    <3>2. CASE ~Mapped(pp)
      BY <1>1, <1>8, <3>2 DEF Scribble, PageTypeOK
    <3> QED
      BY <3>1, <3>2
  <2>4. PageTypeOK' /\ Distinct(before)'
    BY <1>1, <2>1, <2>3 DEF PageTypeOK, Distinct
  <2>5. Relinked'
    BY <1>1, <2>1, <2>2, RelinkedKept
  <2> QED
    BY <2>1, <2>4, <2>5 DEF PInv
<1>9. CASE \/ Skip \/ Wild \/ FirstFree \/ AssertHolds \/ AssertFails
           \/ EndCheck
  <2>1. /\ pc \in {"scribble", "assert"}
        /\ UNCHANGED <<link, page_free_list, i, only_low_memory, before, tp>>
        /\ pc' \in {"scribble", "assert", "done", "panic", "fault"}
    BY <1>9 DEF Skip, Wild, FirstFree, AssertHolds, AssertFails, EndCheck,
                list, call
  <2>2. \/ pp' = pp
        \/ pp' = page_free_list
        \/ pp \in Pages /\ pp' = link[pp]
    BY <1>9 DEF Skip, Wild, FirstFree, AssertHolds, AssertFails, EndCheck
  <2>3. PageTypeOK' /\ Distinct(before)'
    BY <1>1, <2>1, <2>2 DEF PageTypeOK, Distinct, Cells
  <2>4. Relinked'
    BY <1>1, <2>1, RelinkedKept
  <2> QED
    BY <2>1, <2>3, <2>4 DEF PInv
<1>10. CASE UNCHANGED vars
  <2>1. /\ PageTypeOK' /\ Distinct(before)' /\ Relinked'
    BY <1>1, <1>10 DEF vars, list, PageTypeOK, Distinct, Relinked, Listed,
                       Follows, Ahead, pagetype, pdx_limit
  <2>2. (pc = "page_init" => \A j \in DOMAIN before : before[j] < i)'
    BY <1>10 DEF vars, PInv
  <2>3. (pc \in {"page_init", "call"} => Unchecked)'
    BY <1>10 DEF vars, list, PInv, Unchecked, Chain, At
  <2>4. (pc = "relink" => Relinking)'
    <3>1. /\ \A t, k : Of(t, k)' = Of(t, k)
          /\ \A t, k : CellAt(t, k)' = CellAt(t, k)
          /\ \A k : At(k)' = At(k)
      BY <1>10 DEF vars, list, Of, CellAt, At, pagetype, pdx_limit
    <3>2. \A k : Chain(k) => Chain(k)'
      BY <1>10, <3>1 DEF vars, list, Chain
    <3>3. \A t, k, l : Hung(t, k, l) => Hung(t, k, l)'
      BY <1>10, <3>1 DEF vars, list, Hung, Next2
    <3>4. Relinking => Relinking'
      BY <1>10, <3>1, <3>2, <3>3 DEF vars, list, Relinking
    <3> QED
      BY <1>10, <3>4 DEF vars, PInv
  <2> QED
    BY <2>1, <2>2, <2>3, <2>4 DEF PInv
<1> QED
  BY <1>3, <1>4, <1>5, <1>6, <1>7, <1>8, <1>9, <1>10 DEF Next

(* Whatever the list, and whether page_init or an allocator has left it,   *)
(* check_page_free_list gives it back whole and in order, low pages first. *)
THEOREM RelinksList == Spec => [](PageTypeOK /\ Relinked)
<1>1. Init => PInv
  BY PageAssumption, InitPInv
<1>2. PInv /\ [Next]_vars => PInv'
  BY PageAssumption, NextPInv
<1>3. PInv => PageTypeOK /\ Relinked
  BY DEF PInv
<1> QED
  BY <1>1, <1>2, <1>3, PTL DEF Spec

-----------------------------------------------------------------------------
(* The walks over the list.                                                *)

(* What the two walks of the check rest on: the list in the order of Ahead, *)
(* but for the links that marks destroyed.                                 *)
InOrder ==
  /\ page_free_list \in Listed
  /\ \A w \in Listed : ~Ahead(w, page_free_list)
  /\ \A u \in Listed : link[u] = Garbage \/ Follows(u, link[u])

(* The pages a walk that is at v has been to.                              *)
VisitedTo(v) == IF v = NULL THEN Listed ELSE {w \in Listed : Ahead(w, v)}
Visited == VisitedTo(pp)

Forbidden == {0, IOPHYSMEM, EXTPHYSMEM - 1, EXTPHYSMEM}

(* A walk is at a page of the list or behind it, or astray because a mark  *)
(* destroyed a link.                                                       *)
Walking ==
  /\ InOrder
  /\ pp \in Listed \cup {NULL, Garbage}
  /\ pp = Garbage => \E u \in Listed : link[u] = Garbage
  /\ \A u \in Listed : link[u] = Garbage => \E p \in marked : u \in Holds[p]
  /\ marked \subseteq Markable /\ marked \cap Kernel = {}

Counted ==
  /\ nfree_basemem = Cardinality({p \in Visited : Low(p)})
  /\ nfree_extmem = Cardinality({p \in Visited : ~Low(p)})

CheckInv ==
  /\ pc \in {"page_init", "call", "relink"} => marked = {}
  /\ pc \in {"page_init", "call", "relink", "scribble"} =>
       nfree_basemem = 0 /\ nfree_extmem = 0
  /\ pc = "scribble" =>
       Walking /\ (pp # Garbage => marked = Markable \cap Visited)
  /\ pc = "assert" =>
       /\ Walking /\ marked = Markable /\ first_free_page = 0
       /\ pp # Garbage =>
            /\ Counted /\ Visited \cap Forbidden = {}
            /\ \A w \in Visited : link[w] # Garbage
  /\ CheckIsRight

LEMMA ListFacts ==
  ASSUME PageAssumption, PageTypeOK
  PROVE  /\ Listed \subseteq Pages /\ Listed \subseteq Cells
         /\ IsFiniteSet(Listed)
         /\ NULL \notin Pages /\ Garbage \notin Pages /\ NULL # Garbage
         /\ \A u \in Listed : \E j \in DOMAIN before : u = before[j]
         /\ Pages \subseteq Nat
<1>1. Pages \subseteq Nat /\ IsFiniteSet(Pages)
  <2>1. 0 \in Int /\ npages - 1 \in Int
    BY DEF PageAssumption
  <2> QED BY <2>1, FS_Interval DEF Pages
<1>2. Listed \subseteq Pages
  BY DEF Listed, PageTypeOK
<1>3. IsFiniteSet(Listed)
  BY <1>1, <1>2, FS_Subset
<1>4. NULL \notin Pages /\ Garbage \notin Pages /\ NULL # Garbage
  BY DEF PageAssumption, Pages
<1> QED BY <1>1, <1>2, <1>3, <1>4 DEF Listed, Cells

(* Ahead is a strict total order on the list.                              *)
LEMMA AheadOrder ==
  ASSUME PageAssumption, PageTypeOK, Distinct(before),
         NEW u \in Listed, NEW v \in Listed
  PROVE  /\ ~Ahead(u, u)
         /\ u = v \/ Ahead(u, v) \/ Ahead(v, u)
         /\ ~(Ahead(u, v) /\ Ahead(v, u))
         /\ \A w \in Listed : Ahead(w, u) /\ Ahead(u, v) => Ahead(w, v)
<1>1. /\ DOMAIN before = 1 .. Len(before) /\ Len(before) \in Nat
      /\ \A p \in Listed : pagetype(p) \in {0, 1}
  BY TypeIsBit DEF PageTypeOK
<1>2. PICK a \in DOMAIN before, b \in DOMAIN before :
        u = before[a] /\ v = before[b]
  BY ListFacts
<1>3. a \in Nat /\ b \in Nat
  BY <1>1
<1>4. /\ ~Ahead(u, u)
      /\ u = v \/ Ahead(u, v) \/ Ahead(v, u)
      /\ ~(Ahead(u, v) /\ Ahead(v, u))
  BY <1>1, <1>2, <1>3, AheadByPosition
<1>5. ASSUME NEW w \in Listed, Ahead(w, u), Ahead(u, v)
      PROVE  Ahead(w, v)
  <2>1. PICK c \in DOMAIN before : w = before[c]
    BY ListFacts
  <2>2. c \in Nat
    BY <1>1
  <2> QED BY <1>1, <1>2, <1>3, <1>5, <2>1, <2>2, AheadByPosition
<1> QED BY <1>4, <1>5

(* A walk that takes the next link has been to one page more.              *)
LEMMA OneVisitedMore ==
  ASSUME PageAssumption, PageTypeOK, Distinct(before),
         NEW u \in Listed, NEW v, Follows(u, v)
  PROVE  /\ VisitedTo(v) = VisitedTo(u) \cup {u} /\ u \notin VisitedTo(u)
         /\ v \in Listed \cup {NULL}
<1>1. u # NULL /\ NULL \notin Listed
  BY ListFacts
<1>2. VisitedTo(u) = {w \in Listed : Ahead(w, u)}
  BY <1>1 DEF VisitedTo
<1>3. u \notin VisitedTo(u)
  BY <1>2, AheadOrder
<1>4. CASE v = NULL
  <2>1. \A w \in Listed : ~Ahead(u, w)
    BY <1>4 DEF Follows
  <2>2. \A w \in Listed : w = u \/ Ahead(w, u)
    BY <2>1, AheadOrder
  <2>3. VisitedTo(v) = Listed
    BY <1>4 DEF VisitedTo
  <2> QED BY <1>2, <1>3, <1>4, <2>2, <2>3
<1>5. CASE v # NULL
  <2>1. /\ v \in Listed /\ Ahead(u, v)
        /\ \A w \in Listed : ~(Ahead(u, w) /\ Ahead(w, v))
    BY <1>5 DEF Follows
  <2>2. VisitedTo(v) = {w \in Listed : Ahead(w, v)}
    BY <1>5 DEF VisitedTo
  <2>3. ASSUME NEW w \in Listed
        PROVE  Ahead(w, v) <=> w = u \/ Ahead(w, u)
    <3>1. w = u \/ Ahead(w, u) \/ Ahead(u, w)
      BY AheadOrder
    <3>2. Ahead(w, u) => Ahead(w, v)
      BY <2>1, AheadOrder
    <3> QED BY <2>1, <3>1, <3>2
  <2> QED BY <1>2, <1>3, <2>1, <2>2, <2>3
<1> QED BY <1>4, <1>5

(* The same, for a step that takes the link of the page it is at, if the   *)
(* step has not just destroyed it.                                         *)
LEMMA WalkOn ==
  ASSUME PageAssumption, PageTypeOK, Distinct(before), Walking,
         pp \in Pages, pp' \in {link[pp], Garbage},
         UNCHANGED <<page_free_list, before, only_low_memory>>
  PROVE  /\ pp \in Listed /\ pp \notin Visited
         /\ pp' \in Listed \cup {NULL, Garbage}
         /\ pp' # Garbage => Visited' = Visited \cup {pp}
<1>1. pp \in Listed
  BY ListFacts DEF Walking
<1>2. pp \notin Visited
  BY <1>1, ListFacts, AheadOrder DEF Visited, VisitedTo
<1>3. pp' = Garbage \/ Follows(pp, pp')
  BY <1>1 DEF Walking, InOrder
<1>4. Listed' = Listed /\ \A w : Ahead(w, pp') <=> Ahead(w, pp)'
  BY DEF Listed, Ahead, pagetype, pdx_limit
<1>5. Visited' = VisitedTo(pp')
  BY <1>4 DEF Visited, VisitedTo
<1> QED BY <1>1, <1>2, <1>3, <1>5, OneVisitedMore DEF Visited

LEMMA DirectoryIndex ==
  ASSUME PageAssumption, NEW p \in Pages
  PROVE  PDX(p) \in Nat /\ PDX(p) < NPDENTRIES
BY DEF PageAssumption, Pages, PDX

(* Before the page tables are complete the list has been sorted; afterwards *)
(* all pages are of one kind, and the list is walked as it was found.       *)
LEMMA ChainInOrder ==
  ASSUME PageAssumption, PageTypeOK, Distinct(before), Unchecked,
         ~only_low_memory, page_free_list # NULL
  PROVE  InOrder /\ \A u \in Listed : link[u] # Garbage
<1>1. /\ DOMAIN before = 1 .. Len(before) /\ Len(before) \in Nat
      /\ \A j \in 1 .. Len(before) : before[j] \in Pages
  BY DEF PageTypeOK
<1>2. \A j \in 1 .. Len(before) : pagetype(before[j]) = 0
  BY <1>1, DirectoryIndex DEF pagetype, pdx_limit
<1>3. \A a, b \in 1 .. Len(before) : Ahead(before[a], before[b]) <=> a < b
  BY <1>1, <1>2, AheadByPosition
<1>4. 1 \in 1 .. Len(before) /\ page_free_list = before[1]
  BY <1>1 DEF Unchecked, At
<1>5. ASSUME NEW j \in 1 .. Len(before)
      PROVE  link[before[j]] # Garbage /\ Follows(before[j], link[before[j]])
  <2>1. link[before[j]] = At(j + 1)
    BY <1>1 DEF Unchecked, Chain
  <2>2. CASE j = Len(before)
    <3>1. link[before[j]] = NULL
      BY <1>1, <2>1, <2>2 DEF At
    <3>2. \A w \in Listed : ~Ahead(before[j], w)
      BY <1>1, <1>3, <2>2, ListFacts
    <3> QED BY <3>1, <3>2, ListFacts DEF Follows
  <2>3. CASE j # Len(before)
    <3>n. Len(before) \in Nat
      BY <1>1
    <3>0. j \in Nat /\ j >= 1 /\ j < Len(before)
      BY <3>n, <2>3
    <3>1. j + 1 \in 1 .. Len(before) /\ link[before[j]] = before[j + 1]
      BY <2>1, <3>0 DEF At
    <3>2. before[j + 1] \in Listed /\ Ahead(before[j], before[j + 1])
      BY <1>1, <1>3, <3>1 DEF Listed
    <3>3. \A w \in Listed : ~(Ahead(before[j], w) /\ Ahead(w, before[j + 1]))
      BY <1>1, <1>3, <3>1, ListFacts
    <3> QED BY <3>1, <3>2, <3>3, ListFacts DEF Follows
  <2> QED BY <2>2, <2>3
<1>6. \A w \in Listed : ~Ahead(w, page_free_list)
  BY <1>1, <1>3, <1>4, ListFacts
<1> QED BY <1>1, <1>4, <1>5, <1>6, ListFacts DEF InOrder, Listed

LEMMA WalkBegins ==
  ASSUME PageAssumption, PageTypeOK, UNCHANGED before,
         marked' = {}, pp' = page_free_list',
         InOrder', \A u \in Listed : link'[u] # Garbage
  PROVE  /\ Walking' /\ pp' # Garbage
         /\ (marked = Markable \cap Visited)'
<1>1. Listed' = Listed
  BY DEF Listed
<1>2. page_free_list' \in Listed /\ (\A w \in Listed : ~Ahead(w, pp))'
  BY <1>1 DEF InOrder
<1>3. pp' # Garbage /\ pp' # NULL
  BY <1>2, ListFacts
<1>4. Visited' = {}
  BY <1>2, <1>3 DEF Visited, VisitedTo
<1> QED BY <1>1, <1>2, <1>3, <1>4 DEF Walking

(* What a step that leaves the list as it was found does not change.       *)
LEMMA SameOrder ==
  ASSUME UNCHANGED <<before, only_low_memory>>
  PROVE  /\ Listed' = Listed /\ Markable' = Markable
         /\ BreaksList' = BreaksList
         /\ \A u, v : Ahead(u, v)' <=> Ahead(u, v)
         /\ \A u, v : Follows(u, v)' <=> Follows(u, v)
         /\ UNCHANGED pp => Visited' = Visited
<1>1. Listed' = Listed
  BY DEF Listed
<1>2. Markable' = Markable
  BY <1>1 DEF Markable
<1>3. \A u, v : Ahead(u, v)' <=> Ahead(u, v)
  BY DEF Ahead, pagetype, pdx_limit
<1>4. BreaksList' = BreaksList
  BY <1>1, <1>2 DEF BreaksList
<1> QED BY <1>1, <1>2, <1>3, <1>4 DEF Follows, Visited, VisitedTo

LEMMA MarksStep ==
  ASSUME PageAssumption, PInv, CheckInv, PInv', Scribble \/ Skip
  PROVE  CheckInv'
<1>1. /\ pc = "scribble" /\ pp \in Pages
      /\ UNCHANGED <<page_free_list, before, only_low_memory>>
      /\ UNCHANGED <<nfree_basemem, nfree_extmem>>
  BY DEF Scribble, Skip, list, call, count
<1>2. /\ PageTypeOK /\ Distinct(before) /\ PageTypeOK'
  BY DEF PInv
<1>3. pp # Garbage
  BY <1>1, ListFacts, <1>2
<1>4. /\ Walking /\ marked = Markable \cap Visited
      /\ nfree_basemem = 0 /\ nfree_extmem = 0
  BY <1>1, <1>3 DEF CheckInv
<1>5. /\ Listed' = Listed /\ Markable' = Markable
      /\ \A u, v : Ahead(u, v)' <=> Ahead(u, v)
      /\ \A u, v : Follows(u, v)' <=> Follows(u, v)
  BY <1>1, SameOrder
<1>6. pp \in Listed
  BY <1>1, <1>2, <1>4, ListFacts DEF Walking
<1>7. PDX(pp) \in Nat /\ PDX(pp) < NPDENTRIES
  BY <1>1, DirectoryIndex
<1>8. CASE Scribble
  <2>1. only_low_memory => PDX(pp) = 0
    BY <1>7, <1>8 DEF Scribble, pdx_limit
  <2>2. /\ marked' = marked \cup {pp}
        /\ link' = [x \in Cells |->
                      IF x \in Holds[pp] THEN Garbage ELSE link[x]]
        /\ pp' = link'[pp]
        /\ pc' = IF pp \in Kernel THEN "lost" ELSE "scribble"
    BY <1>1, <1>8, <2>1 DEF Scribble, Mapped
  <2>3. pp \in Markable
    BY <1>6, <2>1 DEF Markable
  <2>4. CASE pp \in Kernel
    <3>1. pc' = "lost" /\ (Markable \cap Kernel # {})'
      BY <1>5, <2>2, <2>3, <2>4
    <3> QED BY <1>2, <3>1 DEF CheckInv, CheckIsRight
  <2>5. CASE pp \notin Kernel
    <3>1. \A u \in Listed : link'[u] = IF u \in Holds[pp] THEN Garbage ELSE link[u]
      BY <1>2, <2>2, ListFacts
    <3>2. pp' \in {link[pp], Garbage}
      BY <1>6, <2>2, <3>1
    <3>3. /\ pp' \in Listed \cup {NULL, Garbage}
          /\ pp' # Garbage => Visited' = Visited \cup {pp}
      BY <1>1, <1>2, <1>4, <3>2, WalkOn
    <3>4. InOrder'
      <4>1. /\ page_free_list' \in Listed'
            /\ (\A w \in Listed : ~Ahead(w, page_free_list))'
        BY <1>1, <1>4, <1>5 DEF Walking, InOrder
      <4>2. ASSUME NEW u \in Listed
            PROVE  link'[u] = Garbage \/ Follows(u, link'[u])
        BY <1>4, <3>1 DEF Walking, InOrder
      <4>3. (\A u \in Listed : link[u] = Garbage \/ Follows(u, link[u]))'
        BY <1>5, <4>2
      <4> QED BY <4>1, <4>3 DEF InOrder
    <3>5. pp' = Garbage => \E u \in Listed : link'[u] = Garbage
      BY <1>6, <2>2
    <3>6. \A u \in Listed : link'[u] = Garbage =>
            \E p \in marked' : u \in Holds[p]
      BY <1>4, <2>2, <3>1 DEF Walking
    <3>7. marked' \subseteq Markable /\ marked' \cap Kernel = {}
      BY <1>4, <2>2, <2>3, <2>5 DEF Walking
    <3>8. Walking'
      BY <1>5, <3>3, <3>4, <3>5, <3>6, <3>7 DEF Walking
    <3>9. (pp # Garbage => marked = Markable \cap Visited)'
      BY <1>4, <1>5, <2>2, <2>3, <3>3
    <3>10. pc' = "scribble"
      BY <2>2, <2>5
    <3> QED BY <1>1, <1>2, <1>4, <3>8, <3>9, <3>10 DEF CheckInv, CheckIsRight
  <2> QED BY <2>4, <2>5
<1>9. CASE Skip
  <2>1. /\ PDX(pp) >= pdx_limit /\ pp' = link[pp]
        /\ UNCHANGED <<link, marked, pc>>
    BY <1>9 DEF Skip, list
  <2>2. pp \notin Markable
    <3>1. NPDENTRIES \in Nat
      BY DEF PageAssumption
    <3> QED BY <1>7, <2>1, <3>1 DEF pdx_limit, Markable
  <2>3. /\ pp' \in Listed \cup {NULL, Garbage}
        /\ pp' # Garbage => Visited' = Visited \cup {pp}
    BY <1>1, <1>2, <1>4, <2>1, WalkOn
  <2>4. InOrder'
    BY <1>1, <1>4, <1>5, <2>1 DEF Walking, InOrder
  <2>5. pp' = Garbage => \E u \in Listed : link'[u] = Garbage
    BY <1>6, <2>1
  <2>6. Walking'
    BY <1>4, <1>5, <2>1, <2>3, <2>4, <2>5 DEF Walking
  <2>7. (pp # Garbage => marked = Markable \cap Visited)'
    BY <1>4, <1>5, <2>1, <2>2, <2>3
  <2> QED BY <1>1, <1>2, <1>4, <2>1, <2>6, <2>7 DEF CheckInv, CheckIsRight
<1> QED BY <1>8, <1>9

(* A list that breaks in front of the walk was broken by a mark.           *)
LEMMA AstrayByMark ==
  ASSUME Walking, pp = Garbage
  PROVE  BreaksList
<1>1. PICK u \in Listed : link[u] = Garbage
  BY DEF Walking
<1>2. PICK p \in marked : u \in Holds[p]
  BY <1>1 DEF Walking
<1>3. p \in Markable
  BY DEF Walking
<1> QED BY <1>1, <1>2, <1>3 DEF BreaksList

LEMMA WalkEnds ==
  ASSUME PageAssumption, PInv, CheckInv, PInv', Wild \/ FirstFree
  PROVE  CheckInv'
<1>1. /\ pc = "scribble"
      /\ UNCHANGED <<link, page_free_list, before, only_low_memory>>
      /\ UNCHANGED <<nfree_basemem, nfree_extmem, marked>>
  BY DEF Wild, FirstFree, list, call, count
<1>2. /\ PageTypeOK /\ Distinct(before) /\ PageTypeOK'
  BY DEF PInv
<1>4. /\ Walking /\ (pp # Garbage => marked = Markable \cap Visited)
      /\ nfree_basemem = 0 /\ nfree_extmem = 0
  BY <1>1 DEF CheckInv
<1>5. /\ Listed' = Listed /\ Markable' = Markable /\ BreaksList' = BreaksList
      /\ \A u, v : Ahead(u, v)' <=> Ahead(u, v)
      /\ \A u, v : Follows(u, v)' <=> Follows(u, v)
  BY <1>1, SameOrder
<1>6. CASE Wild
  <2>1. pp = Garbage /\ pc' \in {"panic", "fault"}
    BY <1>6 DEF Wild
  <2>2. BreaksList'
    BY <1>4, <1>5, <2>1, AstrayByMark
  <2> QED BY <1>2, <2>1, <2>2 DEF CheckInv, CheckIsRight
<1>7. CASE FirstFree
  <2>1. /\ pp = NULL /\ pp' = page_free_list /\ pc' = "assert"
        /\ first_free_page' = 0
    BY <1>7 DEF FirstFree, boot_alloc
  <2>2. marked = Markable
    <3>1. pp # Garbage /\ Visited = Listed /\ Markable \subseteq Listed
      BY <1>2, <2>1, ListFacts DEF Visited, VisitedTo, Markable
    <3> QED BY <1>4, <3>1
  <2>3. /\ page_free_list \in Listed
        /\ \A w \in Listed : ~Ahead(w, page_free_list)
    BY <1>4 DEF Walking, InOrder
  <2>4. page_free_list # NULL /\ page_free_list # Garbage
    BY <1>2, <2>3, ListFacts
  <2>5. Visited' = {}
    <3>1. VisitedTo(page_free_list) = {}
      BY <2>3, <2>4 DEF VisitedTo
    <3>2. Visited' = VisitedTo(page_free_list)
      BY <1>5, <2>1 DEF Visited, VisitedTo
    <3> QED BY <3>1, <3>2
  <2>6. InOrder'
    BY <1>1, <1>4, <1>5 DEF Walking, InOrder
  <2>7. Walking'
    BY <1>1, <1>4, <1>5, <2>1, <2>3, <2>4, <2>6 DEF Walking
  <2>8. Counted'
    BY <1>1, <1>4, <2>5, FS_EmptySet DEF Counted
  <2> QED
    BY <1>1, <1>2, <1>5, <2>1, <2>2, <2>5, <2>7, <2>8 DEF CheckInv, CheckIsRight
<1> QED BY <1>6, <1>7

LEMMA AssertStep ==
  ASSUME PageAssumption, PInv, CheckInv, PInv', AssertHolds
  PROVE  CheckInv'
<1>1. /\ pc = "assert" /\ pp \in Pages /\ ~InUse(pp) /\ pp' = link[pp]
      /\ UNCHANGED <<link, page_free_list, before, only_low_memory>>
      /\ UNCHANGED <<first_free_page, marked, pc>>
  BY DEF AssertHolds, list, call, boot
<1>2. /\ PageTypeOK /\ Distinct(before) /\ PageTypeOK'
  BY DEF PInv
<1>3. pp # Garbage
  BY <1>1, <1>2, ListFacts
<1>4. /\ Walking /\ marked = Markable /\ first_free_page = 0
      /\ Counted /\ Visited \cap Forbidden = {}
      /\ \A w \in Visited : link[w] # Garbage
  BY <1>1, <1>3 DEF CheckInv
<1>5. /\ Listed' = Listed /\ Markable' = Markable
      /\ \A u, v : Ahead(u, v)' <=> Ahead(u, v)
      /\ \A u, v : Follows(u, v)' <=> Follows(u, v)
  BY <1>1, SameOrder
<1>6. /\ pp \in Listed /\ pp \notin Visited
      /\ pp' \in Listed \cup {NULL, Garbage}
      /\ pp' # Garbage => Visited' = Visited \cup {pp}
  BY <1>1, <1>2, <1>4, WalkOn
<1>7. InOrder'
  BY <1>1, <1>4, <1>5 DEF Walking, InOrder
<1>8. Walking'
  BY <1>1, <1>4, <1>5, <1>6, <1>7 DEF Walking
<1>9. ASSUME pp' # Garbage
      PROVE  /\ Counted' /\ (Visited \cap Forbidden = {})'
             /\ (\A w \in Visited : link[w] # Garbage)'
  <2>1. Visited' = Visited \cup {pp}
    BY <1>6, <1>9
  <2>2. pp \notin Forbidden
    BY <1>1 DEF InUse, Forbidden
  <2>3. link[pp] # Garbage
    BY <1>1, <1>9
  <2>4. Counted'
    <3> DEFINE B == {p \in Visited : Low(p)}
               E == {p \in Visited : ~Low(p)}
    <3>1. IsFiniteSet(B) /\ IsFiniteSet(E)
      <4>1. Visited \subseteq Listed
        BY DEF Visited, VisitedTo
      <4> QED BY <1>2, <4>1, ListFacts, FS_Subset
    <3>2. pp \notin B /\ pp \notin E
      BY <1>6
    <3>3. nfree_basemem = Cardinality(B) /\ nfree_extmem = Cardinality(E)
      BY <1>4 DEF Counted
    <3>4. Low(pp) <=> pp < EXTPHYSMEM
      BY DEF Low
    <3>5. CASE Low(pp)
      <4>1. nfree_basemem' = nfree_basemem + 1 /\ nfree_extmem' = nfree_extmem
        BY <3>4, <3>5 DEF AssertHolds
      <4>2. /\ {p \in Visited' : Low(p)} = B \cup {pp}
            /\ {p \in Visited' : ~Low(p)} = E
        BY <2>1, <3>5
      <4>3. Cardinality(B \cup {pp}) = Cardinality(B) + 1
        BY <3>1, <3>2, FS_AddElement
      <4> QED BY <3>3, <4>1, <4>2, <4>3 DEF Counted, Low
    <3>6. CASE ~Low(pp)
      <4>1. nfree_extmem' = nfree_extmem + 1 /\ nfree_basemem' = nfree_basemem
        BY <3>4, <3>6 DEF AssertHolds
      <4>2. /\ {p \in Visited' : Low(p)} = B
            /\ {p \in Visited' : ~Low(p)} = E \cup {pp}
        BY <2>1, <3>6
      <4>3. Cardinality(E \cup {pp}) = Cardinality(E) + 1
        BY <3>1, <3>2, FS_AddElement
      <4> QED BY <3>3, <4>1, <4>2, <4>3 DEF Counted, Low
    <3> QED BY <3>5, <3>6
  <2>5. (Visited \cap Forbidden = {})'
    BY <1>4, <2>1, <2>2 DEF Forbidden
  <2>6. (\A w \in Visited : link[w] # Garbage)'
    BY <1>1, <1>4, <2>1, <2>3
  <2> QED BY <2>4, <2>5, <2>6
<1> QED BY <1>1, <1>2, <1>4, <1>5, <1>8, <1>9 DEF CheckInv, CheckIsRight

LEMMA CheckEnds ==
  ASSUME PageAssumption, PInv, CheckInv, PInv', AssertFails \/ EndCheck
  PROVE  CheckInv'
<1>1. /\ pc = "assert"
      /\ UNCHANGED <<link, page_free_list, before, only_low_memory>>
      /\ UNCHANGED <<nfree_basemem, nfree_extmem, marked, pp>>
  BY DEF AssertFails, EndCheck, list, call, count
<1>2. /\ PageTypeOK /\ PageTypeOK'
  BY DEF PInv
<1>3. Listed' = Listed /\ Markable' = Markable /\ BreaksList' = BreaksList
  BY <1>1, SameOrder
<1>4. /\ Walking /\ marked = Markable /\ first_free_page = 0
      /\ pp # Garbage =>
           /\ Counted /\ Visited \cap Forbidden = {}
           /\ \A w \in Visited : link[w] # Garbage
  BY <1>1 DEF CheckInv
<1>5. CASE AssertFails
  <2>1. pc' = "panic" /\ pp # NULL /\ (pp \in Pages => InUse(pp))
    BY <1>5 DEF AssertFails
  <2>2. CASE pp = Garbage
    <3>1. BreaksList'
      BY <1>3, <1>4, <2>2, AstrayByMark
    <3> QED BY <1>2, <2>1, <3>1 DEF CheckInv, CheckIsRight
  <2>3. CASE pp # Garbage
    <3>1. pp \in Listed /\ pp \in Pages
      BY <1>2, <1>4, <2>1, <2>3, ListFacts DEF Walking
    <3>2. ~(page2kva(pp) < 0)
      BY <1>2, <3>1, ListFacts DEF page2kva, PageAssumption
    <3>3. pp \in Forbidden
      BY <1>4, <2>1, <3>1, <3>2 DEF InUse, Forbidden
    <3>4. Listed' \cap {0, IOPHYSMEM, EXTPHYSMEM - 1, EXTPHYSMEM} # {}
      BY <1>3, <3>1, <3>3 DEF Forbidden
    <3> QED BY <1>2, <2>1, <3>4 DEF CheckInv, CheckIsRight
  <2> QED BY <2>2, <2>3
<1>6. CASE EndCheck
  <2>1. /\ pp = NULL
        /\ pc' = IF nfree_basemem > 0 /\ nfree_extmem > 0
                 THEN "done" ELSE "panic"
    BY <1>6 DEF EndCheck
  <2>2. pp # Garbage /\ Visited = Listed
    BY <1>2, <2>1, ListFacts DEF Visited, VisitedTo
  <2>3. /\ nfree_basemem = Cardinality({p \in Listed : Low(p)})
        /\ nfree_extmem = Cardinality({p \in Listed : ~Low(p)})
        /\ Listed \cap Forbidden = {}
        /\ \A w \in Listed : link[w] # Garbage
    BY <1>4, <2>2 DEF Counted
  <2>4. /\ IsFiniteSet({p \in Listed : Low(p)})
        /\ IsFiniteSet({p \in Listed : ~Low(p)})
    BY <1>2, ListFacts, FS_Subset
  <2>5. /\ nfree_basemem \in Nat /\ nfree_extmem \in Nat
        /\ nfree_basemem = 0 => {p \in Listed : Low(p)} = {}
        /\ nfree_extmem = 0 => {p \in Listed : ~Low(p)} = {}
    BY <2>3, <2>4, FS_CardinalityType, FS_EmptySet
  <2>6. CASE nfree_basemem > 0 /\ nfree_extmem > 0
    <3>1. pc' = "done"
      BY <2>1, <2>6
    <3>2. (marked = Markable /\ marked \cap Kernel = {})'
      BY <1>1, <1>3, <1>4 DEF Walking
    <3>3. /\ Listed' \cap {0, IOPHYSMEM, EXTPHYSMEM - 1, EXTPHYSMEM} = {}
          /\ \A p \in Listed' : link'[p] # Garbage
      BY <1>1, <1>3, <2>3 DEF Forbidden
    <3>4. /\ nfree_basemem' = Cardinality({p \in Listed' : Low(p)})
          /\ nfree_extmem' = Cardinality({p \in Listed' : ~Low(p)})
          /\ nfree_basemem' > 0 /\ nfree_extmem' > 0
      BY <1>1, <1>3, <2>3, <2>6
    <3> QED BY <1>2, <3>1, <3>2, <3>3, <3>4 DEF CheckInv, CheckIsRight, Low
  <2>7. CASE ~(nfree_basemem > 0 /\ nfree_extmem > 0)
    <3>1. pc' = "panic"
      BY <2>1, <2>7
    <3>2. (\A p \in Listed : Low(p)) \/ (\A p \in Listed : ~Low(p))
      BY <2>5, <2>7
    <3>3. ((\A p \in Listed : Low(p)) \/ (\A p \in Listed : ~Low(p)))'
      BY <1>3, <3>2 DEF Low
    <3> QED BY <1>2, <3>1, <3>3 DEF CheckInv, CheckIsRight
  <2> QED BY <2>6, <2>7
<1> QED BY <1>5, <1>6

LEMMA BeginStep ==
  ASSUME PageAssumption, PInv, CheckInv, PInv',
         \/ page_init \/ page_init_done \/ check_page_free_list
         \/ Relink \/ Join
  PROVE  CheckInv'
<1>1. /\ PageTypeOK /\ Distinct(before) /\ PageTypeOK'
      /\ pc \in {"page_init", "call", "relink"}
      /\ marked' = {} /\ nfree_basemem' = 0 /\ nfree_extmem' = 0
  BY DEF PInv, CheckInv, page_init, page_init_done, check_page_free_list,
         Relink, Join, JoinLists, count
<1>2. CASE page_init \/ page_init_done \/ Relink
  <2>1. pc' \in {"page_init", "call", "relink"}
    BY <1>2 DEF page_init, page_init_done, Relink
  <2> QED BY <1>1, <2>1 DEF CheckInv, CheckIsRight
<1>3. CASE check_page_free_list
  <2>1. /\ pc = "call" /\ Unchecked
        /\ UNCHANGED <<link, page_free_list, before, only_low_memory>>
    BY <1>3 DEF PInv, check_page_free_list, list, call
  <2>2. CASE page_free_list = NULL
    <3>1. pc' = "panic"
      BY <1>3, <2>2 DEF check_page_free_list
    <3>2. Listed = {}
      <4>1. \A j \in DOMAIN before : before[j] # NULL
        BY <1>1, ListFacts DEF Listed
      <4>2. Len(before) \in Nat /\ DOMAIN before = 1 .. Len(before)
        BY <1>1 DEF PageTypeOK
      <4>3. ~(1 <= Len(before))
        BY <2>1, <2>2, <4>1, <4>2 DEF Unchecked, At
      <4> QED BY <4>2, <4>3 DEF Listed
    <3>3. Listed' = {}
      BY <2>1, <3>2 DEF Listed
    <3> QED BY <1>1, <3>1, <3>3 DEF CheckInv, CheckIsRight
  <2>3. CASE page_free_list # NULL /\ only_low_memory
    <3>1. pc' = "relink"
      BY <1>3, <2>3 DEF check_page_free_list
    <3> QED BY <1>1, <3>1 DEF CheckInv, CheckIsRight
  <2>4. CASE page_free_list # NULL /\ ~only_low_memory
    <3>1. pc' = "scribble" /\ pp' = page_free_list'
      BY <1>3, <2>1, <2>4 DEF check_page_free_list
    <3>2. InOrder /\ \A u \in Listed : link[u] # Garbage
      BY <1>1, <2>1, <2>4, ChainInOrder
    <3>3. InOrder' /\ \A u \in Listed : link'[u] # Garbage
      BY <2>1, <3>2, SameOrder DEF InOrder
    <3>4. Walking' /\ (marked = Markable \cap Visited)'
      BY <1>1, <2>1, <3>1, <3>3, WalkBegins
    <3> QED BY <1>1, <3>1, <3>4 DEF CheckInv, CheckIsRight
  <2> QED BY <2>2, <2>3, <2>4
<1>4. CASE Join
  <2>1. /\ pc' = "scribble" /\ pp' = page_free_list'
        /\ UNCHANGED <<before, only_low_memory>>
    BY <1>4 DEF Join, JoinLists, call
  <2>2. Relinked' /\ \A u \in Listed : Follows(u, link[u])'
    BY <1>4, JoinStep
  <2>3. only_low_memory /\ Listed' = Listed
    BY <1>4, <2>1, SameOrder DEF PInv, Relinking, Join, JoinLists
  <2>4. /\ InOrder'
    BY <2>1, <2>2, <2>3 DEF Relinked, InOrder
  <2>5. \A u \in Listed : link'[u] # Garbage
    BY <1>1, <2>2, <2>3, ListFacts DEF Follows
  <2>6. Walking' /\ (marked = Markable \cap Visited)'
    BY <1>1, <2>1, <2>4, <2>5, WalkBegins
  <2> QED BY <1>1, <2>1, <2>6 DEF CheckInv, CheckIsRight
<1> QED BY <1>2, <1>3, <1>4

LEMMA CheckKept ==
  ASSUME PInv', CheckInv, UNCHANGED vars
  PROVE  CheckInv'
<1>1. /\ UNCHANGED <<link, page_free_list, before, only_low_memory, pp>>
      /\ UNCHANGED <<nfree_basemem, nfree_extmem, marked, pc>>
      /\ UNCHANGED first_free_page
  BY DEF vars, list, count, boot
<1>2. PageTypeOK'
  BY DEF PInv
<1>3. /\ Listed' = Listed /\ Markable' = Markable /\ Visited' = Visited
      /\ BreaksList' = BreaksList
      /\ \A u, v : Ahead(u, v)' <=> Ahead(u, v)
      /\ \A u, v : Follows(u, v)' <=> Follows(u, v)
  BY <1>1, SameOrder
<1>4. InOrder' = InOrder
  BY <1>1, <1>3 DEF InOrder
<1>5. Walking' = Walking
  BY <1>1, <1>3, <1>4 DEF Walking
<1>6. Counted' = Counted
  BY <1>1, <1>3 DEF Counted, Low
<1>7. CheckIsRight'
  BY <1>1, <1>2, <1>3 DEF CheckInv, CheckIsRight, Low
<1> QED BY <1>1, <1>3, <1>5, <1>6, <1>7 DEF CheckInv, Forbidden

(* However the first walk damages the list it walks on, and whatever pages *)
(* are on it: check_page_free_list passes only a list that has free pages  *)
(* of both kinds and none of those in use, after marking every page it can *)
(* reach and counting each page once, and every panic, fault or loss it    *)
(* ends in has a cause in the list.                                        *)
THEOREM CheckCorrect == Spec => []CheckIsRight
<1>1. Init => PInv /\ CheckInv
  <2>1. Init => PInv
    BY PageAssumption, InitPInv
  <2>2. ASSUME Init, PInv PROVE CheckInv
    <3>1. /\ pc \in {"page_init", "call"} /\ marked = {}
          /\ nfree_basemem = 0 /\ nfree_extmem = 0
      BY <2>2 DEF Init
    <3> QED BY <2>2, <3>1 DEF CheckInv, CheckIsRight, PInv
  <2> QED BY <2>1, <2>2
<1>2. PInv /\ CheckInv /\ [Next]_vars => (PInv /\ CheckInv)'
  <2>1. PInv /\ [Next]_vars => PInv'
    BY PageAssumption, NextPInv
  <2>2. ASSUME PInv, CheckInv, [Next]_vars, PInv' PROVE CheckInv'
    BY <2>2, PageAssumption, MarksStep, WalkEnds, AssertStep, CheckEnds,
       BeginStep, CheckKept DEF Next
  <2> QED BY <2>1, <2>2
<1>3. CheckInv => CheckIsRight
  BY DEF CheckInv
<1> QED
  BY <1>1, <1>2, <1>3, PTL DEF Spec
=============================================================================

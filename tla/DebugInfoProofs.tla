--------------------------- MODULE DebugInfoProofs --------------------------
(***************************************************************************)
(* For every table, type, region and address: stab_binsearch looks only at *)
(* entries of its region and finds the stab that contains the address,     *)
(* unless a matching stab begins at the address and another one byte after *)
(* it.                                                                     *)
(* And for every table in the order gcc, gas and ld give it, debuginfo_eip *)
(* calls it in order and answers what an ordered reading of the table says.*)
(***************************************************************************)
EXTENDS DebugInfo, FiniteSetTheorems, TLAPS

(* Where the cursors are, whatever the values in the table.                *)
Bounds ==
  /\ pc = "search" =>
       /\ l \in first .. last + 1 /\ l <= r + 1
       /\ r \in first - 1 .. last
       /\ region_right = r
       /\ region_left \in first .. last
  /\ pc = "rightmost" =>
       /\ any_matches
       /\ l \in first - 1 .. last /\ l <= region_right
       /\ l = region_right \/ region_left <= l
       /\ region_left \in first .. last
       /\ region_right \in first - 1 .. last
  /\ any_matches => Matching # {}
  /\ ~any_matches =>
       /\ region_left = first
       /\ pc = "search" => r = last /\ \A j \in Matching : l <= j
       /\ pc # "search" => region_right = first - 1 /\ Matching = {}

(* Everything right of the region is above the address, everything left of *)
(* l is at or below it and no further right than the best stab so far.     *)
Narrowed(right, low) ==
  /\ \A j \in Matching : j > right => Value(j) > target
  /\ \A j \in Matching : j < low => Value(j) <= target /\ j <= region_left
  /\ region_left = first \/ region_left \in Candidates
  /\ right = last \/ right + 1 \in Matching

(* With all stabs of the type above the address the region goes from the   *)
(* first entry to the one before the first of them.                        *)
Missed ==
  Candidates = {} /\ Matching # {} =>
    /\ region_right + 1 \in Matching
    /\ \A j \in Matching : j > region_right
    /\ region_left = IF region_right < first THEN region_right ELSE first

SearchInv ==
  ApartFromTarget =>
    /\ pc = "search" =>
         /\ Narrowed(r, l)
         /\ \/ addr = target
            \/ addr = target + 1 /\ \E j \in Matching : Value(j) = target
    /\ pc = "rightmost" =>
         /\ Narrowed(region_right, region_right + 1)
         /\ Candidates # {} => region_left <= l
    /\ pc = "done" => FindsRegion /\ Missed

IInv == TypeOK /\ Sorted /\ Bounds /\ SearchInv

-----------------------------------------------------------------------------
LEMMA TableFacts ==
  ASSUME TypeOK
  PROVE  /\ stabs \in [Indices -> Stab]
         /\ \A j \in Indices : Value(j) \in Addrs
         /\ first \in Nat /\ last \in Nat /\ first <= last /\ last <= N - 1
         /\ Matching \subseteq first .. last
         /\ first .. last \subseteq Indices
         /\ \A j \in Matching : Value(j) \in Nat
         /\ target \in Nat /\ addr \in Nat /\ MaxAddr \in Nat
         /\ target <= MaxAddr /\ addr <= MaxAddr
  <1>1. stabs \in [Indices -> Stab]
    BY StabAssumption DEF TypeOK
  <1>2. \A j \in Indices : Value(j) \in Addrs
    BY <1>1 DEF Value, Stab
  <1>3. first \in Nat /\ last \in Nat /\ first <= last /\ last <= N - 1
    BY StabAssumption DEF TypeOK, Indices
  <1>4. Matching \subseteq first .. last /\ first .. last \subseteq Indices
    BY <1>3, StabAssumption DEF Matching, Indices
  <1>5. /\ target \in Nat /\ addr \in Nat /\ MaxAddr \in Nat
        /\ target <= MaxAddr /\ addr <= MaxAddr
    BY StabAssumption DEF TypeOK, Addrs
  <1>6. \A j \in Matching : Value(j) \in Nat
    BY <1>2, <1>4, <1>5 DEF Addrs
  <1> QED
    BY <1>1, <1>2, <1>3, <1>4, <1>5, <1>6

(* What depends only on the arguments does not change.                     *)
LEMMA ArgsStay ==
  ASSUME UNCHANGED args
  PROVE  /\ Matching' = Matching /\ Candidates' = Candidates
         /\ \A j : Value(j)' = Value(j)
         /\ Sorted' = Sorted
         /\ ApartFromTarget' = ApartFromTarget
         /\ UNCHANGED <<stabs, type, target, first, last>>
  <1>1. UNCHANGED <<stabs, type, target, first, last>>
    BY DEF args
  <1> QED
    BY <1>1 DEF Matching, Candidates, Value, Sorted, ApartFromTarget

LEMMA InitInv == Init => IInv
  <1> SUFFICES ASSUME Init PROVE IInv
    OBVIOUS
  <1>1. TypeOK
    <2>1. first \in Indices /\ last \in Indices /\ first <= last
      BY DEF Init
    <2>2. first \in Nat /\ last \in Nat
      BY <2>1, StabAssumption DEF Indices
    <2>3. /\ first \in first - 1 .. last /\ last \in first - 1 .. last
          /\ first \in first - 1 .. last + 1
      BY <2>1, <2>2
    <2> QED
      BY <2>1, <2>2, <2>3 DEF Init, TypeOK
  <1>2. Bounds
    BY <1>1, TableFacts DEF Init, Bounds
  <1>3. SearchInv
    BY <1>1, TableFacts DEF Init, SearchInv, Narrowed
  <1> QED
    BY <1>1, <1>2, <1>3 DEF Init, IInv

(* The middle lies between the cursors, and so does the probe.             *)
LEMMA Middle ==
  ASSUME TypeOK, Bounds, pc = "search", l <= r
  PROVE  /\ true_m \in l .. r
         /\ true_m \in first .. last
         /\ \A m : IsProbe(m) => m \in Matching /\ m \in l .. true_m
  <1>1. l \in Int /\ r \in Int /\ first <= l /\ r <= last
    BY TableFacts DEF Bounds
  <1>2. true_m \in l .. r
    BY <1>1 DEF true_m
  <1> QED
    BY <1>1, <1>2, TableFacts DEF IsProbe, Matching

LEMMA TypeStep == IInv /\ [Next]_vars => (TypeOK /\ Bounds)'
  <1> SUFFICES ASSUME IInv, [Next]_vars PROVE (TypeOK /\ Bounds)'
    OBVIOUS
  <1>0. TypeOK /\ Bounds
    BY DEF IInv
  <1>1. CASE NoMatch
    <2>1. true_m \in l .. r /\ true_m \in first .. last
      BY <1>0, <1>1, Middle DEF NoMatch
    <2>2. \A j \in Matching : l <= j => l' <= j
      BY <1>0, <1>1, <2>1, TableFacts DEF NoMatch, Matching
    <2> QED
      BY <1>0, <1>1, <2>1, <2>2, TableFacts, ArgsStay DEF NoMatch, TypeOK, Bounds
  <1>2. ASSUME NEW m \in Indices, GoRight(m) PROVE (TypeOK /\ Bounds)'
    <2>1. true_m \in l .. r /\ m \in Matching /\ m \in l .. true_m
      BY <1>0, <1>2, Middle DEF GoRight
    <2> QED
      BY <1>0, <1>2, <2>1, TableFacts, ArgsStay DEF GoRight, TypeOK, Bounds
  <1>3. ASSUME NEW m \in Indices, GoLeft(m) PROVE (TypeOK /\ Bounds)'
    <2>1. true_m \in l .. r /\ m \in Matching /\ m \in l .. true_m
      BY <1>0, <1>3, Middle DEF GoLeft
    <2> QED
      BY <1>0, <1>3, <2>1, TableFacts, ArgsStay DEF GoLeft, TypeOK, Bounds
  <1>4. ASSUME NEW m \in Indices, ExactMatch(m) PROVE (TypeOK /\ Bounds)'
    <2>1. true_m \in l .. r /\ m \in Matching /\ m \in l .. true_m
      BY <1>0, <1>4, Middle DEF ExactMatch
    <2>2. addr' \in Addrs
      BY <1>0, <1>4, TableFacts DEF ExactMatch, Addrs
    <2> QED
      BY <1>0, <1>4, <2>1, <2>2, TableFacts, ArgsStay
      DEF ExactMatch, TypeOK, Bounds
  <1>5. CASE EndSearch
    <2>1. CASE any_matches
      BY <1>0, <1>5, <2>1, TableFacts, ArgsStay DEF EndSearch, TypeOK, Bounds
    <2>2. CASE ~any_matches
      <3>1. Matching = {}
        BY <1>0, <1>5, <2>2, TableFacts DEF EndSearch, Bounds
      <3> QED
        BY <1>0, <1>5, <2>2, <3>1, TableFacts, ArgsStay
        DEF EndSearch, TypeOK, Bounds
    <2> QED
      BY <2>1, <2>2
  <1>6. CASE Back
    BY <1>0, <1>6, TableFacts, ArgsStay DEF Back, TypeOK, Bounds
  <1>7. CASE Return
    BY <1>0, <1>7, TableFacts, ArgsStay DEF Return, TypeOK, Bounds
  <1>8. CASE UNCHANGED vars
    BY <1>0, <1>8, ArgsStay DEF vars, TypeOK, Bounds
  <1> QED
    BY <1>1, <1>2, <1>3, <1>4, <1>5, <1>6, <1>7, <1>8 DEF Next

(* What a probe tells of the values on either side of it.                  *)
LEMMA ProbeOrder ==
  ASSUME TypeOK, Sorted, NEW m \in Matching
  PROVE  /\ \A j \in Matching : j <= m => Value(j) <= Value(m)
         /\ \A j \in Matching : m <= j => Value(m) <= Value(j)
  <1>1. ASSUME NEW j \in Matching, NEW k \in Matching, j <= k
        PROVE  Value(j) <= Value(k)
    <2>1. j \in Int /\ k \in Int /\ Value(j) \in Nat
      BY TableFacts
    <2>2. CASE j = k
      BY <2>1, <2>2
    <2>3. CASE j < k
      BY <2>3 DEF Sorted
    <2> QED
      BY <1>1, <2>1, <2>2, <2>3
  <1> QED
    BY <1>1

LEMMA SearchStep == IInv /\ [Next]_vars => SearchInv'
  <1> SUFFICES ASSUME IInv, [Next]_vars, ApartFromTarget' PROVE
        (/\ pc = "search" =>
              /\ Narrowed(r, l)
              /\ \/ addr = target
                 \/ addr = target + 1 /\ \E j \in Matching : Value(j) = target
         /\ pc = "rightmost" =>
              /\ Narrowed(region_right, region_right + 1)
              /\ Candidates # {} => region_left <= l
         /\ pc = "done" => FindsRegion /\ Missed)'
    BY DEF SearchInv
  <1>0. /\ TypeOK /\ Sorted /\ Bounds /\ UNCHANGED args
        /\ ApartFromTarget
        /\ pc = "search" =>
              /\ Narrowed(r, l)
              /\ \/ addr = target
                 \/ addr = target + 1 /\ \E j \in Matching : Value(j) = target
        /\ pc = "rightmost" =>
              /\ Narrowed(region_right, region_right + 1)
              /\ Candidates # {} => region_left <= l
        /\ pc = "done" => FindsRegion /\ Missed
    <2>1. UNCHANGED args
      BY DEF Next, NoMatch, GoRight, GoLeft, ExactMatch, EndSearch, Back,
             Return, vars
    <2> QED
      BY <2>1, ArgsStay DEF IInv, SearchInv
  <1>1. CASE NoMatch
    <2>1. true_m \in l .. r /\ l \in Int
      BY <1>0, <1>1, Middle, TableFacts DEF NoMatch, Bounds
    <2>2. \A j \in Matching : j < l' => j < l
      BY <1>0, <1>1, <2>1, TableFacts DEF NoMatch, Matching
    <2>3. Narrowed(r, l)'
      BY <1>0, <1>1, <2>2, ArgsStay DEF NoMatch, Narrowed
    <2> QED
      BY <1>0, <1>1, <2>3, ArgsStay DEF NoMatch
  <1>2. ASSUME NEW m \in Indices, GoRight(m)
        PROVE  Narrowed(r, l)' /\ pc = "search" /\ pc' = "search" /\ addr' = addr
    <2>1. true_m \in l .. r /\ m \in Matching /\ m \in l .. true_m /\ l \in Int
      BY <1>0, <1>2, Middle, TableFacts DEF GoRight, Bounds
    <2>2. Value(m) <= target
      BY <1>0, <1>2, <2>1, TableFacts DEF GoRight
    <2>3. \A j \in Matching : j < l' => j <= m
      BY <1>0, <1>2, <2>1, TableFacts DEF GoRight, IsProbe, Matching
    <2>4. \A j \in Matching : j < l' => Value(j) <= target
      BY <1>0, <2>1, <2>2, <2>3, ProbeOrder, TableFacts
    <2>5. m \in Candidates
      BY <2>1, <2>2 DEF Candidates
    <2> QED
      BY <1>0, <1>2, <2>3, <2>4, <2>5, ArgsStay DEF GoRight, Narrowed
  <1>3. ASSUME NEW m \in Indices, GoLeft(m)
        PROVE  Narrowed(r, l)' /\ pc = "search" /\ pc' = "search" /\ addr' = addr
    <2>1. true_m \in l .. r /\ m \in Matching /\ m \in l .. true_m /\ l \in Int
      BY <1>0, <1>3, Middle, TableFacts DEF GoLeft, Bounds
    <2>2. target < Value(m)
      BY <1>0, <1>3, <2>1, TableFacts DEF GoLeft
    <2>3. \A j \in Matching : j > r' => m <= j
      BY <1>0, <1>3, <2>1, TableFacts DEF GoLeft
    <2>4. \A j \in Matching : j > r' => Value(j) > target
      BY <1>0, <2>1, <2>2, <2>3, ProbeOrder, TableFacts
    <2>5. r' + 1 \in Matching
      BY <1>0, <1>3, <2>1, TableFacts DEF GoLeft
    <2> QED
      BY <1>0, <1>3, <2>4, <2>5, ArgsStay DEF GoLeft, Narrowed
  <1>4. ASSUME NEW m \in Indices, ExactMatch(m)
        PROVE  /\ Narrowed(r, l)' /\ pc' = "search"
               /\ addr' = target + 1 /\ Value(m) = target /\ m \in Matching
    <2>1. true_m \in l .. r /\ m \in Matching /\ m \in l .. true_m /\ l \in Int
      BY <1>0, <1>4, Middle, TableFacts DEF ExactMatch, Bounds
    <2>2. Value(m) = target /\ addr = target
      BY <1>0, <1>4, <2>1 DEF ExactMatch, ApartFromTarget
    <2>3. target < MaxAddr
      BY <1>0, <2>1, <2>2 DEF ApartFromTarget
    <2>4. addr' = target + 1
      BY <1>0, <1>4, <2>2, <2>3, TableFacts DEF ExactMatch
    <2>5. \A j \in Matching : j < m => Value(j) <= target
      BY <1>0, <2>1, <2>2, ProbeOrder, TableFacts
    <2>6. m \in Candidates
      BY <1>0, <2>1, <2>2, TableFacts DEF Candidates
    <2>7. \A j \in Matching : j < m => j <= m
      BY <1>0, <2>1, TableFacts
    <2> QED
      BY <1>0, <1>4, <2>1, <2>2, <2>4, <2>5, <2>6, <2>7, ArgsStay
      DEF ExactMatch, Narrowed
  <1>5. CASE EndSearch
    <2>1. CASE any_matches
      <3>1. /\ pc = "search" /\ pc' = "rightmost" /\ l = r + 1
            /\ region_right = r /\ l' = r
            /\ UNCHANGED <<region_left, region_right>>
        BY <1>0, <1>5, <2>1, TableFacts DEF EndSearch, Bounds
      <3>2. Narrowed(region_right, region_right + 1)'
        BY <1>0, <3>1, ArgsStay DEF Narrowed
      <3>3. ASSUME Candidates # {} PROVE region_left <= r
        <4>1. PICK j \in Candidates : TRUE
          BY <3>3
        <4>2. j \in Matching /\ Value(j) <= target
          BY <4>1 DEF Candidates
        <4>3. \A k \in Matching : Value(k) <= target => k <= r
          BY <1>0, <3>1, TableFacts DEF Narrowed, Bounds
        <4>4. CASE region_left \in Candidates
          BY <4>3, <4>4 DEF Candidates
        <4>5. CASE region_left = first
          BY <1>0, <3>1, <4>2, <4>3, <4>5, TableFacts DEF Bounds
        <4> QED
          BY <1>0, <3>1, <4>4, <4>5 DEF Narrowed
      <3> QED
        BY <1>0, <3>1, <3>2, <3>3, ArgsStay
    <2>2. CASE ~any_matches
      <3>1. Matching = {} /\ pc' = "done"
        BY <1>0, <1>5, <2>2, TableFacts DEF EndSearch, Bounds
      <3>2. Candidates = {}
        BY <3>1 DEF Candidates
      <3> QED
        BY <1>0, <3>1, <3>2, ArgsStay DEF FindsRegion, Missed
    <2> QED
      BY <2>1, <2>2
  <1>6. CASE Back
    <2>1. /\ pc = "rightmost" /\ pc' = "rightmost" /\ l > region_left
          /\ l' = l - 1 /\ UNCHANGED <<region_left, region_right>>
      BY <1>6 DEF Back
    <2>2. Narrowed(region_right, region_right + 1)'
      BY <1>0, <2>1, ArgsStay DEF Narrowed
    <2>3. region_left <= l'
      BY <1>0, <2>1, TableFacts DEF Bounds
    <2> QED
      BY <2>1, <2>2, <2>3
  <1>7. CASE Return
    <2>1. /\ pc = "rightmost" /\ pc' = "done" /\ region_left' = l
          /\ UNCHANGED region_right
          /\ l > region_left => stabs[l].n_type = type
      BY <1>7 DEF Return
    <2>2. /\ l \in first - 1 .. last /\ l <= region_right
          /\ region_left \in first .. last
          /\ region_right \in first - 1 .. last
      BY <1>0, <2>1 DEF Bounds
    <2>3. ASSUME Candidates # {} PROVE IsRegionOf(l, region_right)
      <3>1. PICK j \in Candidates : TRUE
        BY <2>3
      <3>2. j \in Matching /\ Value(j) <= target
        BY <3>1 DEF Candidates
      <3>3. /\ \A k \in Matching : k > region_right => Value(k) > target
            /\ \A k \in Matching : k < region_right + 1 =>
                                      Value(k) <= target /\ k <= region_left
            /\ region_left = first \/ region_left \in Candidates
            /\ region_right = last \/ region_right + 1 \in Matching
            /\ region_left <= l
        BY <1>0, <2>1, <2>3 DEF Narrowed
      <3>4. l = region_left
        <4>1. CASE l > region_left
          <5>1. l \in Matching /\ l < region_right + 1
            BY <1>0, <2>1, <2>2, <4>1, TableFacts DEF Matching
          <5> QED
            BY <1>0, <2>2, <3>3, <4>1, <5>1, TableFacts
        <4> QED
          BY <1>0, <2>2, <3>3, <4>1, TableFacts
      <3>5. \A k \in Candidates : k < region_right + 1 /\ k <= region_left
        BY <1>0, <2>2, <3>3, TableFacts DEF Candidates
      <3>6. region_left \in Candidates
        BY <1>0, <2>2, <3>1, <3>2, <3>3, <3>5, TableFacts
      <3>7. region_right \in l .. last
        BY <1>0, <2>2, TableFacts
      <3>8. \A k \in l + 1 .. region_right : k \notin Matching
        BY <1>0, <2>2, <3>3, <3>4, TableFacts
      <3> QED
        BY <1>0, <2>2, <3>3, <3>4, <3>5, <3>6, <3>7, <3>8, TableFacts
        DEF IsRegionOf
    <2>4. Candidates # {} => IsRegionOf(region_left, region_right)'
      BY <1>0, <2>1, <2>3, ArgsStay DEF IsRegionOf
    <2>5. ASSUME Candidates = {}, Matching # {}
          PROVE  /\ region_right + 1 \in Matching
                 /\ \A j \in Matching : j > region_right
                 /\ l = IF region_right < first THEN region_right ELSE first
      <3>1. /\ \A j \in Matching : j < region_right + 1 => Value(j) <= target
            /\ region_left = first
            /\ region_right = last \/ region_right + 1 \in Matching
        BY <1>0, <2>1, <2>5 DEF Narrowed
      <3>2. \A j \in Matching : j > region_right
        BY <1>0, <2>2, <2>5, <3>1, TableFacts DEF Candidates
      <3>3. region_right # last
        BY <1>0, <2>5, <3>2, TableFacts
      <3>4. ~(l > region_left)
        <4>1. l > region_left => l \in Matching
          BY <1>0, <2>1, <2>2, TableFacts DEF Matching
        <4> QED BY <1>0, <2>2, <3>2, <4>1, TableFacts
      <3>5. l = region_right \/ first <= l
        BY <1>0, <2>1, <3>1 DEF Bounds
      <3>6. /\ first \in Int /\ l \in Int /\ region_right \in Int
            /\ l <= region_right /\ l <= first
        BY <1>0, <2>2, <3>1, <3>4, TableFacts
      <3>7. l = IF region_right < first THEN region_right ELSE first
        BY <3>5, <3>6
      <3> QED BY <3>1, <3>2, <3>3, <3>7
    <2>6. Missed'
      BY <2>1, <2>5, <1>0, ArgsStay DEF Missed
    <2> QED
      BY <1>0, <2>1, <2>4, <2>6, ArgsStay DEF FindsRegion
  <1>8. CASE UNCHANGED vars
    BY <1>0, <1>8, ArgsStay
    DEF vars, Narrowed, FindsRegion, IsRegionOf, Missed
  <1>9. CASE \E m \in Indices : GoRight(m) \/ GoLeft(m)
    <2>1. Narrowed(r, l)' /\ pc = "search" /\ pc' = "search" /\ addr' = addr
      BY <1>2, <1>3, <1>9
    <2> QED
      BY <1>0, <2>1, ArgsStay
  <1>10. CASE \E m \in Indices : ExactMatch(m)
    <2>1. /\ Narrowed(r, l)' /\ pc' = "search" /\ addr' = target + 1
          /\ \E m \in Matching : Value(m) = target
      BY <1>4, <1>10
    <2> QED
      BY <1>0, <2>1, ArgsStay
  <1> QED
    BY <1>1, <1>5, <1>6, <1>7, <1>8, <1>9, <1>10 DEF Next

LEMMA StepInv == IInv /\ [Next]_vars => IInv'
  <1> SUFFICES ASSUME IInv, [Next]_vars PROVE IInv'
    OBVIOUS
  <1>1. UNCHANGED args
    BY DEF Next, NoMatch, GoRight, GoLeft, ExactMatch, EndSearch, Back,
           Return, vars
  <1>2. Sorted'
    BY <1>1, ArgsStay DEF IInv
  <1> QED
    BY <1>2, TypeStep, SearchStep DEF IInv

LEMMA Found == IInv => FindsRegion
  BY DEF IInv, SearchInv, FindsRegion

LEMMA Inside == IInv => ProbesInside
  <1> SUFFICES ASSUME TypeOK, Bounds PROVE ProbesInside
    BY DEF IInv
  <1> QED
    BY TableFacts DEF Bounds, ProbesInside

-----------------------------------------------------------------------------
(* stab_binsearch never looks at an entry outside the region it was given. *)
THEOREM SearchSafe == Spec => [](TypeOK /\ ProbesInside)
  BY Inside, InitInv, StepInv, PTL DEF Spec, IInv

(* The search is correct for sorted tables whenever no matching stab sits  *)
(* one byte after another that begins at the address.                      *)
THEOREM SearchCorrect == Spec => []FindsRegion
  BY Found, InitInv, StepInv, PTL DEF Spec

-----------------------------------------------------------------------------
(* debuginfo_eip: three searches, each in the region the last one left.    *)

(* lfile .. rfile are the stabs of the file the address is in.             *)
FoundFile ==
  /\ lfile \in 1 .. N - 1 /\ rfile \in lfile .. N - 1
  /\ stabs[lfile].n_type = N_SO /\ Value(lfile) <= eip
  /\ \A k \in lfile + 1 .. rfile : stabs[k].n_type # N_SO
  /\ \A k \in AtOrBelow(N_SO, 0, N - 1, eip) : k <= lfile
  /\ rfile < N - 1 => stabs[rfile + 1].n_type = N_SO

(* lfun .. rfun are the stabs of the function, if there is one.            *)
InFunction ==
  /\ lfun \in lfile + 1 .. rfile /\ rfun \in lfun .. rfile
  /\ stabs[lfun].n_type = N_FUN /\ Value(lfun) <= eip
  /\ \A k \in lfun + 1 .. rfun : stabs[k].n_type # N_FUN
  /\ \A k \in AtOrBelow(N_FUN, lfile, rfile, eip) : k <= lfun
  /\ rfun < rfile => stabs[rfun + 1].n_type = N_FUN
  /\ info.fn = (IF lfun \in named THEN lfun ELSE 0)
  /\ info.fn_addr = Value(lfun)

InNoFunction ==
  /\ lfun = lfile /\ rfun = lfile - 1
  /\ \A k \in lfile .. rfile : stabs[k].n_type # N_FUN
  /\ info.fn = 0 /\ info.fn_addr = eip

SearchesFor(t, lo, hi, a) ==
  type = t /\ first = lo /\ last = hi /\ target = a

(* The arguments of the search at each phase.                              *)
Phases ==
  /\ phase = "entry" => SearchesFor(N_SO, 0, N - 1, 0) /\ pc = "done"
  /\ phase = "file" => SearchesFor(N_SO, 0, N - 1, eip)
  /\ phase = "fun" => SearchesFor(N_FUN, lfile, rfile, eip)
  /\ phase \in {"line", "found"} =>
       \/ InFunction /\ SearchesFor(N_SLINE, lfun, rfun, eip - Value(lfun))
       \/ InNoFunction /\ SearchesFor(N_SLINE, lfile, rfile, eip)

Answered ==
  /\ phase \notin {"done"} => ret = "none" /\ info.file = 0 /\ info.narg = 0
  /\ phase \in {"entry", "file", "fun"} => info = Unknown
  /\ phase = "line" => info.line = 0
  /\ phase = "found" =>
       /\ pc = "done"
       /\ info.line = IF region_left <= region_right THEN region_left ELSE 0

DInv ==
  /\ InfoTypeOK /\ FindsRegion
  /\ phase \in {"file", "fun", "line", "found"} => IInv
  /\ phase \in {"entry", "done"} => pc = "done"
  /\ phase \in {"fun", "line", "found"} => FoundFile
  /\ Phases /\ Answered /\ AnswersRight

LEMMA TableIs ==
  ASSUME stabs \in StabTables
  PROVE  /\ stabs \in [Indices -> Stab] /\ TableInOrder(stabs)
         /\ N \in Nat /\ N >= 1 /\ MaxAddr \in Nat /\ 0 \in Indices
         /\ \A k \in Indices : Value(k) \in Nat /\ Value(k) <= MaxAddr
         /\ Types = StabTypes
<1>1. stabs \in [Indices -> Stab] /\ TableInOrder(stabs)
  BY StabAssumption, TablesInOrder
<1>2. N \in Nat /\ N >= 1 /\ MaxAddr \in Nat /\ 0 \in Indices
  BY StabAssumption DEF Indices
<1>3. \A k \in Indices : Value(k) \in Nat /\ Value(k) <= MaxAddr
  BY <1>1, <1>2 DEF Value, Stab, Addrs
<1> QED BY <1>1, <1>2, <1>3, DebugInfoAssumption

LEMMA SameTable ==
  ASSUME UNCHANGED stabs
  PROVE  /\ \A k : Value(k)' = Value(k)
         /\ \A t, lo, hi, a : AtOrBelow(t, lo, hi, a)' = AtOrBelow(t, lo, hi, a)
         /\ \A k : NamesFile(k)' <=> NamesFile(k)
BY DEF Value, AtOrBelow, NamesFile

LEMMA LastIs ==
  ASSUME NEW S \in SUBSET Int, NEW x \in S, \A k \in S : k <= x
  PROVE  Last(S) = x
<1>1. \A y \in S : (\A k \in S : k <= y) => y = x
  BY Z3
<1> QED BY <1>1 DEF Last

LEMMA HasLast ==
  ASSUME NEW S, NEW lo \in Nat, NEW hi \in Nat, S \subseteq lo .. hi, S # {}
  PROVE  Last(S) \in S /\ \A k \in S : k <= Last(S)
<1> DEFINE R == {ss \in Nat \X Nat : ss[1] < ss[2]}
           T == {hi - k : k \in S}
<1>1. IsWellFoundedOn(R, Nat)
  BY NatLessThanWellFounded DEF OpToRel
<1> HIDE DEF R
<1>2. T \subseteq Nat /\ T # {}
  <2>1. \A k \in S : hi - k \in Nat
    OBVIOUS
  <2> QED BY <2>1
<1>3. PICK x \in T : \A y \in T : <<y, x>> \notin R
  BY <1>1, <1>2, WFMin
<1>4. PICK m \in S : x = hi - m
  OBVIOUS
<1>5. ASSUME NEW k \in S
      PROVE  k <= m
  <2>1. hi - k \in T /\ hi - k \in Nat /\ x \in Nat
    BY <1>2
  <2>2. ~(hi - k < x)
    BY <1>3, <2>1 DEF R
  <2>3. k \in Int /\ m \in Int
    OBVIOUS
  <2> QED BY <1>4, <2>2, <2>3
<1>6. S \in SUBSET Int
  OBVIOUS
<1>7. Last(S) = m
  BY <1>5, <1>6, LastIs
<1> QED BY <1>5, <1>7

(* A call with a region of the table whose stabs are in order.             *)
LEMMA CallInv ==
  ASSUME stabs \in StabTables, NEW t \in Types, NEW a \in Addrs,
         NEW lo \in Indices, NEW hi \in Indices, lo <= hi,
         NEW ends, Ascending(stabs, t, ends),
         \A k \in lo + 1 .. hi : stabs[k].n_type \notin ends,
         stab_binsearch(lo, hi, t, a)
  PROVE  /\ IInv' /\ UNCHANGED stabs /\ pc' = "search"
         /\ type' = t /\ first' = lo /\ last' = hi /\ target' = a
<1>1. /\ UNCHANGED stabs /\ pc' = "search"
      /\ type' = t /\ target' = a /\ addr' = a /\ first' = lo /\ last' = hi
      /\ region_left' = lo /\ region_right' = hi /\ l' = lo /\ r' = hi
      /\ any_matches' = FALSE
  BY DEF stab_binsearch
<1>2. /\ lo \in Nat /\ hi \in Nat /\ hi <= N - 1 /\ N \in Nat
  BY TableIs DEF Indices
<1>3. Sorted'
  <2>1. ASSUME NEW j \in lo .. hi, NEW k \in lo .. hi, j < k,
               stabs[j].n_type = t, stabs[k].n_type = t
        PROVE  Value(j) <= Value(k)
    <3>1. j \in Indices /\ k \in Indices
      BY <1>2 DEF Indices
    <3>2. \A n \in j + 1 .. k : n \in lo + 1 .. hi
      BY <1>2
    <3>3. <<j, k>> \in Pairs(stabs, t, ends)
      BY <2>1, <3>1, <3>2 DEF Pairs
    <3> QED BY <3>3 DEF Ascending, Value
  <2>2. Matching' = {k \in lo .. hi : stabs[k].n_type = t}
    BY <1>1 DEF Matching
  <2> QED BY <1>1, <2>1, <2>2, SameTable DEF Sorted
<1>4. Init'
  BY <1>1, <1>3 DEF Init
<1>5. Init' => IInv'
  BY InitInv, PTL
<1> QED BY <1>1, <1>4, <1>5

(* The condition of the search, for the types that are apart.              *)
LEMMA ApartInRegion ==
  ASSUME TypeOK, NEW ends, Ascending(stabs, type, ends),
         Apart(stabs, type, ends),
         \A k \in first + 1 .. last : stabs[k].n_type \notin ends,
         \A k \in Matching : Value(k) < MaxAddr
  PROVE  ApartFromTarget
<1>1. /\ first \in Nat /\ last \in Nat /\ last <= N - 1 /\ N \in Nat
      /\ \A k \in Matching : Value(k) \in Nat
      /\ Matching \subseteq first .. last /\ first .. last \subseteq Indices
  BY TableFacts, TableIs DEF TypeOK
<1>2. ASSUME NEW j \in Matching, NEW k \in Matching, j < k
      PROVE  Value(j) <= Value(k) /\ Value(k) # Value(j) + 1
  <2>1. j \in first .. last /\ k \in first .. last
    BY <1>1
  <2>2. \A n \in j + 1 .. k : n \in first + 1 .. last
    BY <1>1, <2>1
  <2>3. <<j, k>> \in Pairs(stabs, type, ends)
    BY <1>1, <1>2, <2>1, <2>2 DEF Pairs, Matching
  <2> QED BY <2>3 DEF Ascending, Apart, Value
<1>3. ASSUME NEW j \in Matching, Value(j) = target, NEW k \in Matching
      PROVE  Value(k) # target + 1
  <2>1. j \in Int /\ k \in Int /\ Value(j) \in Nat /\ Value(k) \in Nat
    BY <1>1
  <2>2. CASE j < k
    BY <1>2, <1>3, <2>2
  <2>3. CASE k < j
    <3>1. Value(k) <= Value(j)
      BY <1>2, <2>3
    <3> QED BY <1>3, <2>1, <3>1
  <2>4. CASE j = k
    BY <1>3, <2>1, <2>4
  <2> QED BY <2>1, <2>2, <2>3, <2>4
<1> QED BY <1>3 DEF ApartFromTarget

(* What a finished search says, when no stabs are apart by one byte.       *)
LEMMA SearchResult ==
  ASSUME IInv, pc = "done", ApartFromTarget
  PROVE  \/ Candidates # {} /\ IsRegionOf(region_left, region_right)
         \/ /\ Candidates = {} /\ Matching # {}
            /\ region_right + 1 \in Matching
            /\ \A k \in Matching : k > region_right
            /\ region_left = IF region_right < first THEN region_right
                             ELSE first
         \/ /\ Matching = {} /\ Candidates = {}
            /\ region_left = first /\ region_right = first - 1
<1>1. FindsRegion /\ Missed
  BY DEF IInv, SearchInv
<1>2. Matching = {} => region_left = first /\ region_right = first - 1
  BY DEF IInv, Bounds
<1>3. Matching = {} => Candidates = {}
  BY DEF Candidates
<1> QED BY <1>1, <1>2, <1>3 DEF FindsRegion, Missed

LEMMA StabTypesDiffer ==
  /\ StabTypes = {N_SO, N_SOL, N_FUN, N_SLINE, N_PSYM, N_UNDF}
  /\ N_SO # N_SOL /\ N_SO # N_FUN /\ N_SO # N_SLINE /\ N_SO # N_PSYM
  /\ N_SO # N_UNDF /\ N_FUN # N_SLINE /\ N_FUN # N_PSYM /\ N_FUN # N_UNDF
  /\ N_SLINE # N_PSYM
BY DEF StabTypes, N_SO, N_SOL, N_FUN, N_SLINE, N_PSYM, N_UNDF

(* The search for the file finds it, or there is none.                     *)
LEMMA FileFound ==
  ASSUME DInv, Returned("file")
  PROVE  /\ region_left = 0 => AtOrBelow(N_SO, 0, N - 1, eip) = {}
         /\ region_left # 0 =>
              /\ region_left \in 1 .. N - 1
              /\ region_right \in region_left .. N - 1
              /\ stabs[region_left].n_type = N_SO /\ Value(region_left) <= eip
              /\ \A k \in region_left + 1 .. region_right :
                   stabs[k].n_type # N_SO
              /\ \A k \in AtOrBelow(N_SO, 0, N - 1, eip) : k <= region_left
              /\ region_right < N - 1 => stabs[region_right + 1].n_type = N_SO
<1>1. /\ IInv /\ TypeOK /\ stabs \in StabTables /\ pc = "done"
      /\ type = N_SO /\ first = 0 /\ last = N - 1 /\ target = eip
  BY DEF DInv, Returned, Phases, SearchesFor, IInv, TypeOK
<1>2. /\ N \in Nat /\ N >= 1 /\ Indices = 0 .. N - 1
      /\ \A k \in Indices : Value(k) \in Nat
      /\ TableInOrder(stabs)
  BY <1>1, TableIs DEF Indices
<1>3. Matching = {k \in 0 .. N - 1 : stabs[k].n_type = N_SO}
  BY <1>1 DEF Matching
<1>4. Candidates = AtOrBelow(N_SO, 0, N - 1, eip)
  BY <1>1, <1>3 DEF Candidates, AtOrBelow
<1>5. ApartFromTarget
  <2>1. \A k \in Matching : Value(k) < MaxAddr
    <3>1. \A k \in Matching : Value(k) \in 1 .. MaxAddr - 1
      BY <1>2, <1>3 DEF TableInOrder, Value
    <3>2. MaxAddr \in Nat
      BY <1>1, TableIs
    <3> QED BY <3>1, <3>2
  <2>2. Ascending(stabs, type, {}) /\ Apart(stabs, type, {})
    BY <1>1, <1>2 DEF TableInOrder
  <2> QED BY <1>1, <2>1, <2>2, ApartInRegion
<1>6. 0 \notin Matching
  BY <1>2, <1>3, StabTypesDiffer DEF TableInOrder
<1>7. CASE Candidates # {} /\ IsRegionOf(region_left, region_right)
  <2>1. /\ region_left \in Matching /\ Value(region_left) <= eip
        /\ \A j \in Candidates : j <= region_left
        /\ region_right \in region_left .. N - 1
        /\ \A j \in region_left + 1 .. region_right : j \notin Matching
        /\ region_right < N - 1 => region_right + 1 \in Matching
    BY <1>1, <1>7 DEF IsRegionOf, Candidates
  <2>2. region_left \in 1 .. N - 1
    BY <1>2, <1>3, <1>6, <2>1
  <2>3. \A j \in region_left + 1 .. region_right : stabs[j].n_type # N_SO
    BY <1>2, <1>3, <2>1, <2>2
  <2> QED BY <1>2, <1>3, <1>4, <2>1, <2>2, <2>3
<1>8. CASE /\ Candidates = {} /\ region_right + 1 \in Matching
           /\ region_left = IF region_right < first THEN region_right
                            ELSE first
  <2>1. region_right \in -1 .. N - 1
    BY <1>1 DEF TypeOK
  <2>2. region_right # -1
    BY <1>6, <1>8
  <2>3. region_left = 0
    BY <1>1, <1>2, <1>8, <2>1, <2>2
  <2> QED BY <1>4, <1>8, <2>3
<1>9. CASE Candidates = {} /\ region_left = first
  BY <1>1, <1>4, <1>9
<1> QED BY <1>1, <1>5, <1>7, <1>8, <1>9, SearchResult

(* What the search for the function leaves: the stabs of the function, or  *)
(* an empty region if the file has none.  It cannot miss a function behind *)
(* the address, because the first one begins where its file does.          *)
LEMMA FunFound ==
  ASSUME DInv, Returned("fun")
  PROVE  \/ /\ region_left \in lfile + 1 .. rfile
            /\ region_right \in region_left .. rfile
            /\ stabs[region_left].n_type = N_FUN /\ Value(region_left) <= eip
            /\ \A k \in region_left + 1 .. region_right :
                 stabs[k].n_type # N_FUN
            /\ \A k \in AtOrBelow(N_FUN, lfile, rfile, eip) : k <= region_left
            /\ region_right < rfile => stabs[region_right + 1].n_type = N_FUN
         \/ /\ region_left = lfile /\ region_right = lfile - 1
            /\ \A k \in lfile .. rfile : stabs[k].n_type # N_FUN
<1>1. /\ IInv /\ TypeOK /\ stabs \in StabTables /\ pc = "done" /\ FoundFile
      /\ type = N_FUN /\ first = lfile /\ last = rfile /\ target = eip
  BY DEF DInv, Returned, Phases, SearchesFor, IInv, TypeOK
<1>2. /\ N \in Nat /\ N >= 1 /\ Indices = 0 .. N - 1
      /\ \A k \in Indices : Value(k) \in Nat
      /\ TableInOrder(stabs)
  BY <1>1, TableIs DEF Indices
<1>3. /\ lfile \in 1 .. N - 1 /\ rfile \in lfile .. N - 1
      /\ stabs[lfile].n_type = N_SO /\ Value(lfile) <= eip
      /\ \A k \in lfile + 1 .. rfile : stabs[k].n_type # N_SO
  BY <1>1 DEF FoundFile
<1>4. eip \in Nat
  BY <1>1, TableFacts
<1>5. Matching = {k \in lfile .. rfile : stabs[k].n_type = N_FUN}
  BY <1>1 DEF Matching
<1>6. Candidates = AtOrBelow(N_FUN, lfile, rfile, eip)
  BY <1>1, <1>5 DEF Candidates, AtOrBelow
<1>7. lfile \notin Matching /\ Matching \subseteq lfile + 1 .. rfile
  BY <1>3, <1>5, StabTypesDiffer
<1>8. Matching \subseteq Indices
  BY <1>2, <1>3, <1>5
<1>9. ApartFromTarget
  <2>1. \A k \in Matching : Value(k) < MaxAddr
    BY <1>2, <1>5, <1>8 DEF TableInOrder, Value
  <2>2. Ascending(stabs, type, {N_SO}) /\ Apart(stabs, type, {N_SO})
    BY <1>1, <1>2 DEF TableInOrder
  <2>3. \A k \in first + 1 .. last : stabs[k].n_type \notin {N_SO}
    BY <1>1, <1>3
  <2> QED BY <1>1, <2>1, <2>2, <2>3, ApartInRegion
<1>10. CASE Candidates # {} /\ IsRegionOf(region_left, region_right)
  <2>1. /\ region_left \in Matching /\ Value(region_left) <= eip
        /\ \A j \in Candidates : j <= region_left
        /\ region_right \in region_left .. rfile
        /\ \A j \in region_left + 1 .. region_right : j \notin Matching
        /\ region_right < rfile => region_right + 1 \in Matching
    BY <1>1, <1>10 DEF IsRegionOf, Candidates
  <2>2. \A j \in region_left + 1 .. region_right : stabs[j].n_type # N_FUN
    BY <1>3, <1>5, <1>7, <2>1
  <2> QED BY <1>5, <1>6, <1>7, <2>1, <2>2
<1>11. CASE /\ Candidates = {} /\ region_right + 1 \in Matching
            /\ \A k \in Matching : k > region_right
  <2> DEFINE k == region_right + 1
  <2>1. region_right \in Int
    BY <1>1, <1>2, <1>3 DEF TypeOK
  <2>2. k \in lfile + 1 .. rfile /\ k \in Indices /\ lfile \in Indices
    <3>1. k \in Matching
      BY <1>11
    <3>2. lfile \in Indices
      BY <1>2, <1>3
    <3> QED BY <1>7, <1>8, <3>1, <3>2
  <2>3. \A n \in lfile + 1 .. k - 1 : stabs[n].n_type \notin {N_SO} \cup {N_FUN}
    <3>1. SUFFICES ASSUME NEW n \in lfile + 1 .. k - 1
                   PROVE  stabs[n].n_type # N_SO /\ stabs[n].n_type # N_FUN
      OBVIOUS
    <3>2. n \in lfile + 1 .. rfile
      BY <1>3, <2>2, <3>1
    <3>3. n \notin Matching
      BY <1>11, <2>1, <3>1, <3>2
    <3> QED BY <1>3, <1>5, <3>2, <3>3
  <2>4. IsFirst(stabs, k, lfile, N_FUN, {N_SO})
    BY <1>3, <1>5, <1>11, <2>2, <2>3 DEF IsFirst
  <2>5. stabs[k].n_value <= stabs[lfile].n_value
    BY <1>2, <1>3, <2>2, <2>4 DEF TableInOrder
  <2>6. Value(k) <= eip
    BY <1>2, <1>3, <1>4, <2>2, <2>5 DEF Value
  <2> QED BY <1>1, <1>11, <2>6 DEF Candidates
<1>12. CASE Matching = {} /\ region_left = first /\ region_right = first - 1
  BY <1>1, <1>5, <1>12
<1> QED BY <1>1, <1>9, <1>10, <1>11, <1>12, SearchResult

(* The search for the line misses none in a function, whose first line is  *)
(* at its beginning.                                                       *)
LEMMA LineFound ==
  ASSUME DInv, phase \in {"line", "found"}, pc = "done"
  PROVE  /\ Candidates = {} =>
              region_left > region_right \/ region_left = lfile
         /\ Candidates # {} /\ ApartFromTarget =>
              /\ region_left <= region_right
              /\ region_left = Last(Candidates)
<1>1. /\ IInv /\ TypeOK /\ stabs \in StabTables /\ FoundFile
      /\ type = N_SLINE
      /\ \/ InFunction /\ first = lfun /\ last = rfun
                       /\ target = eip - Value(lfun)
         \/ InNoFunction /\ first = lfile /\ last = rfile /\ target = eip
  BY DEF DInv, Phases, SearchesFor, IInv, TypeOK
<1>2. /\ N \in Nat /\ N >= 1 /\ Indices = 0 .. N - 1
      /\ \A k \in Indices : Value(k) \in Nat
      /\ TableInOrder(stabs)
  BY <1>1, TableIs DEF Indices
<1>3. /\ lfile \in 1 .. N - 1 /\ rfile \in lfile .. N - 1
      /\ stabs[lfile].n_type = N_SO
      /\ \A k \in lfile + 1 .. rfile : stabs[k].n_type # N_SO
  BY <1>1 DEF FoundFile
<1>4. eip \in Nat /\ target \in Nat /\ Matching \subseteq first .. last
  BY <1>1, TableFacts DEF DInv, InfoTypeOK, Addrs
<1>5. InFunction => /\ lfun \in lfile + 1 .. rfile /\ rfun \in lfun .. rfile
                    /\ stabs[lfun].n_type = N_FUN
                    /\ \A k \in lfun + 1 .. rfun : stabs[k].n_type # N_FUN
  BY DEF InFunction
<1>6. /\ first \in 1 .. N - 1 /\ last \in first .. N - 1
      /\ stabs[first].n_type \in {N_SO, N_FUN}
      /\ \/ first = lfile
         \/ InFunction /\ first = lfun /\ last = rfun
  <2>1. ASSUME InFunction
        PROVE  lfun \in 1 .. N - 1 /\ rfun \in lfun .. N - 1
    <3>1. /\ lfile \in Int /\ rfile \in Int /\ 1 <= lfile /\ rfile <= N - 1
      BY <1>2, <1>3
    <3>2. /\ lfun \in Int /\ rfun \in Int /\ lfile < lfun
          /\ lfun <= rfun /\ rfun <= rfile
      BY <1>5, <2>1, <3>1
    <3> QED BY <1>2, <3>1, <3>2
  <2> QED BY <1>1, <1>3, <1>5, <2>1
<1>7. Matching = {k \in first .. last : stabs[k].n_type = N_SLINE}
  BY <1>1 DEF Matching
<1>8. ASSUME Candidates = {}
      PROVE  region_left > region_right \/ region_left = lfile
  <2>1. ApartFromTarget
    <3>1. \A j \in Matching : Value(j) # target
      <4>1. \A j \in Matching : Value(j) \in Nat
        BY <1>1, TableFacts
      <4> QED BY <1>4, <1>8, <4>1 DEF Candidates
    <3> QED BY <3>1 DEF ApartFromTarget
  <2>2. CASE /\ region_right + 1 \in Matching
             /\ \A k \in Matching : k > region_right
             /\ region_left = IF region_right < first THEN region_right
                              ELSE first
    <3> DEFINE k == region_right + 1
    <3>1. region_right \in Int
      BY <1>1, <1>6 DEF TypeOK
    <3>2. k # first
      BY <1>6, <1>7, <2>2, StabTypesDiffer
    <3>3. k \in first .. last
      BY <1>4, <2>2
    <3>4. k \in first + 1 .. last /\ k \in Indices /\ first \in Indices
      BY <1>2, <1>6, <3>2, <3>3
    <3>5. region_left = first
      BY <1>6, <2>2, <3>1, <3>4
    <3>6. CASE InFunction /\ first = lfun /\ last = rfun
      <4>1. \A n \in first + 1 .. k - 1 :
               stabs[n].n_type \notin {N_SO, N_FUN} \cup {N_SLINE}
        <5>1. SUFFICES ASSUME NEW n \in first + 1 .. k - 1
                       PROVE  stabs[n].n_type \notin {N_SO, N_FUN}
                              /\ stabs[n].n_type # N_SLINE
          OBVIOUS
        <5>2. n \in first + 1 .. last /\ n \in first .. last
          BY <1>6, <3>4, <5>1
        <5>3. n \notin Matching
          BY <2>2, <3>1, <5>1, <5>2
        <5>4. n \in lfile + 1 .. rfile
          BY <1>3, <1>5, <3>6, <5>2
        <5> QED BY <1>3, <1>5, <1>7, <3>6, <5>2, <5>3, <5>4
      <4>2. stabs[k].n_type = N_SLINE /\ first < k
        BY <1>6, <1>7, <2>2, <3>4
      <4>3. IsFirst(stabs, k, first, N_SLINE, {N_SO, N_FUN})
        BY <4>1, <4>2 DEF IsFirst
      <4>4. Value(k) = 0
        BY <1>2, <1>5, <3>4, <3>6, <4>3 DEF TableInOrder, Value
      <4>5. Value(k) <= target
        BY <1>4, <4>4
      <4> QED BY <1>8, <2>2, <4>5 DEF Candidates
    <3> QED BY <1>6, <3>5, <3>6
  <2>3. CASE region_left = first /\ region_right = first - 1
    BY <1>6, <2>3
  <2> QED BY <1>1, <1>8, <2>1, <2>2, <2>3, SearchResult
<1>9. ASSUME Candidates # {}, ApartFromTarget
      PROVE  region_left <= region_right /\ region_left = Last(Candidates)
  <2>1. IsRegionOf(region_left, region_right)
    BY <1>1, <1>9, SearchResult
  <2>2. /\ region_left \in Candidates /\ \A j \in Candidates : j <= region_left
        /\ region_right \in region_left .. last
    BY <2>1 DEF IsRegionOf
  <2>3. Candidates \in SUBSET Int
    <3>1. Candidates \subseteq Matching
      BY DEF Candidates
    <3>2. first .. last \subseteq Int
      OBVIOUS
    <3> QED BY <1>4, <3>1, <3>2
  <2>4. region_left \in Int /\ region_right \in Int
    BY <1>6, <2>2, <2>3
  <2> QED BY <1>6, <2>2, <2>3, <2>4, LastIs
<1> QED BY <1>8, <1>9

LEMMA EndIs ==
  ASSUME NEW t, NEW k \in Nat, NEW hi \in Nat, NEW e \in k .. hi,
         \A i \in k + 1 .. e : stabs[i].n_type # t,
         e < hi => stabs[e + 1].n_type = t
  PROVE  EndOf(t, k, hi) = e
<1> DEFINE S == {j \in k .. hi : \A i \in k + 1 .. j : stabs[i].n_type # t}
<1>1. e \in S
  OBVIOUS
<1>2. ASSUME NEW j \in S, e < j
      PROVE  FALSE
  <2>1. j \in k .. hi /\ \A i \in k + 1 .. j : stabs[i].n_type # t
    OBVIOUS
  <2>2. e + 1 \in k + 1 .. j /\ e < hi
    BY <1>2, <2>1
  <2> QED BY <2>1, <2>2
<1>3. S \in SUBSET Int /\ \A j \in S : j <= e
  <2>1. S \subseteq k .. hi /\ k .. hi \subseteq Int
    OBVIOUS
  <2>2. e \in Int
    OBVIOUS
  <2> HIDE DEF S
  <2> QED BY <1>2, <2>1, <2>2
<1> HIDE DEF S
<1>4. Last(S) = e
  BY <1>1, <1>3, LastIs
<1> QED BY <1>4 DEF EndOf, S

(* What the ordered reading of the table gives is what is in lfile .. rfile *)
(* and lfun .. rfun.                                                       *)
LEMMA Reading ==
  ASSUME DInv, phase \in {"line", "found"}
  PROVE  /\ TheFile = lfile /\ FileEnd = rfile
         /\ TheLines = Candidates
         /\ InFunction => /\ TheFuns # {} /\ TheFun = lfun
                          /\ EndOf(N_FUN, TheFun, FileEnd) = rfun
         /\ InNoFunction => TheFuns = {}
<1>1. /\ stabs \in StabTables /\ FoundFile /\ type = N_SLINE
      /\ \/ InFunction /\ first = lfun /\ last = rfun
                       /\ target = eip - Value(lfun)
         \/ InNoFunction /\ first = lfile /\ last = rfile /\ target = eip
  BY DEF DInv, InfoTypeOK, Phases, SearchesFor, TypeOK
<1>2. N \in Nat /\ N >= 1
  BY <1>1, TableIs
<1>3. /\ lfile \in 1 .. N - 1 /\ rfile \in lfile .. N - 1
      /\ stabs[lfile].n_type = N_SO /\ Value(lfile) <= eip
      /\ \A k \in lfile + 1 .. rfile : stabs[k].n_type # N_SO
      /\ \A k \in AtOrBelow(N_SO, 0, N - 1, eip) : k <= lfile
      /\ rfile < N - 1 => stabs[rfile + 1].n_type = N_SO
  BY <1>1 DEF FoundFile
<1>4. \A t, lo, hi, a : AtOrBelow(t, lo, hi, a) \in SUBSET Int
  BY DEF AtOrBelow
<1>5. TheFile = lfile
  <2>1. lfile \in AtOrBelow(N_SO, 0, N - 1, eip)
    BY <1>2, <1>3 DEF AtOrBelow
  <2> QED BY <1>3, <1>4, <2>1, LastIs DEF TheFile
<1>6. FileEnd = rfile
  <2>1. EndOf(N_SO, lfile, N - 1) = rfile
    <3>1. lfile \in Nat /\ N - 1 \in Nat
      BY <1>2, <1>3
    <3> QED BY <1>3, <3>1, EndIs
  <2> QED BY <1>5, <2>1 DEF FileEnd
<1>7. TheFuns = AtOrBelow(N_FUN, lfile, rfile, eip)
  BY <1>5, <1>6 DEF TheFuns
<1>8. Candidates = AtOrBelow(N_SLINE, first, last, target)
  BY <1>1 DEF Candidates, Matching, AtOrBelow
<1>9. ASSUME InFunction
      PROVE  /\ TheFuns # {} /\ TheFun = lfun
             /\ EndOf(N_FUN, TheFun, FileEnd) = rfun
  <2>1. /\ lfun \in lfile + 1 .. rfile /\ rfun \in lfun .. rfile
        /\ stabs[lfun].n_type = N_FUN /\ Value(lfun) <= eip
        /\ \A k \in lfun + 1 .. rfun : stabs[k].n_type # N_FUN
        /\ \A k \in AtOrBelow(N_FUN, lfile, rfile, eip) : k <= lfun
        /\ rfun < rfile => stabs[rfun + 1].n_type = N_FUN
    BY <1>9 DEF InFunction
  <2>2. lfun \in TheFuns
    BY <1>3, <1>7, <2>1 DEF AtOrBelow
  <2>3. TheFun = lfun
    BY <1>4, <1>7, <2>1, <2>2, LastIs DEF TheFun
  <2>4. EndOf(N_FUN, lfun, rfile) = rfun
    <3>1. lfun \in Nat /\ rfile \in Nat
      BY <1>3, <2>1
    <3> QED BY <2>1, <3>1, EndIs
  <2> QED BY <1>6, <2>2, <2>3, <2>4
<1>10. ASSUME InNoFunction PROVE TheFuns = {}
  BY <1>7, <1>10 DEF InNoFunction, AtOrBelow
<1>11. CASE InFunction /\ first = lfun /\ last = rfun
            /\ target = eip - Value(lfun)
  <2>1. /\ TheFuns # {} /\ TheFun = lfun
        /\ EndOf(N_FUN, TheFun, FileEnd) = rfun
    BY <1>9, <1>11
  <2>2. TheLines = AtOrBelow(N_SLINE, lfun, rfun, eip - Value(lfun))
    BY <2>1 DEF TheLines
  <2>3. TheLines = Candidates
    BY <1>8, <1>11, <2>2
  <2> QED BY <1>5, <1>6, <1>10, <2>1, <2>3
<1>12. CASE InNoFunction /\ first = lfile /\ last = rfile /\ target = eip
  <2>1. TheFuns = {}
    BY <1>10, <1>12
  <2>2. TheLines = AtOrBelow(N_SLINE, lfile, rfile, eip)
    BY <1>5, <1>6, <2>1 DEF TheLines
  <2>3. TheLines = Candidates
    BY <1>8, <1>12, <2>2
  <2> QED BY <1>5, <1>6, <1>9, <2>1, <2>3
<1> QED BY <1>1, <1>5, <1>6, <1>9, <1>10, <1>11, <1>12

(* The scan forward counts the parameters of the function, all of them.    *)
LEMMA Params ==
  ASSUME DInv, phase = "found"
  PROVE  /\ Cardinality(ParamStabs) \in 0 .. N
         /\ InFunction =>
              ParamStabs = {k \in lfun .. rfun : stabs[k].n_type = N_PSYM}
         /\ InNoFunction => Cardinality(ParamStabs) = 0
<1>1. /\ stabs \in StabTables /\ FoundFile
      /\ lfun \in Indices /\ (rfun \in Indices \/ rfun = lfun - 1)
  BY DEF DInv, InfoTypeOK, TypeOK
<1>2. N \in Nat /\ N >= 1 /\ Indices = 0 .. N - 1 /\ TableInOrder(stabs)
  BY <1>1, TableIs DEF Indices
<1>3. Cardinality(ParamStabs) \in 0 .. N
  <2>1. IsFiniteSet(1 .. N) /\ Cardinality(1 .. N) = N
    <3>1. 1 \in Int /\ N \in Int
      BY <1>2
    <3>2. /\ IsFiniteSet(1 .. N)
          /\ Cardinality(1 .. N) = IF 1 > N THEN 0 ELSE N - 1 + 1
      BY <3>1, FS_Interval, Zenon
    <3> QED BY <1>2, <3>2
  <2>2. ParamStabs \subseteq 1 .. N
    BY <1>1, <1>2 DEF ParamStabs
  <2>3. Cardinality(ParamStabs) <= N /\ IsFiniteSet(ParamStabs)
    BY <2>1, <2>2, FS_Subset
  <2>4. Cardinality(ParamStabs) \in Nat
    BY <2>3, FS_CardinalityType
  <2> QED BY <1>2, <2>3, <2>4
<1>4. ASSUME InFunction
      PROVE  ParamStabs = {k \in lfun .. rfun : stabs[k].n_type = N_PSYM}
  <2>1. /\ lfun \in lfile + 1 .. rfile /\ rfun \in lfun .. rfile
        /\ stabs[lfun].n_type = N_FUN
        /\ \A k \in lfun + 1 .. rfun : stabs[k].n_type # N_FUN
        /\ rfun < rfile => stabs[rfun + 1].n_type = N_FUN
    BY <1>4 DEF InFunction
  <2>2. /\ lfile \in 1 .. N - 1 /\ rfile \in lfile .. N - 1
        /\ rfile < N - 1 => stabs[rfile + 1].n_type = N_SO
    BY <1>1 DEF FoundFile
  <2>3. ASSUME NEW k \in lfun .. rfun, stabs[k].n_type = N_PSYM
        PROVE  k \in ParamStabs
    <3>1. k \in Indices
      BY <1>2, <2>1, <2>2
    <3>2. /\ \E n \in 0 .. k - 1 :
               /\ stabs[n].n_type = N_FUN
               /\ \A m \in n + 1 .. k : stabs[m].n_type = N_PSYM
          /\ k < N - 1 /\ stabs[k + 1].n_type \notin {N_SO, N_FUN}
      BY <1>2, <2>3, <3>1 DEF TableInOrder
    <3>3. PICK n \in 0 .. k - 1 :
               /\ stabs[n].n_type = N_FUN
               /\ \A m \in n + 1 .. k : stabs[m].n_type = N_PSYM
      BY <3>2
    <3>4. n >= lfun
      <4>1. CASE n < lfun
        <5>1. lfun \in n + 1 .. k
          BY <1>2, <2>1, <2>2, <2>3, <4>1
        <5> QED BY <2>1, <3>3, <5>1, StabTypesDiffer
      <4> QED BY <2>1, <2>2, <2>3, <3>1, <4>1
    <3>5. n = lfun
      <4>1. n \in lfun .. rfun
        BY <2>1, <2>2, <2>3, <3>3, <3>4
      <4> QED BY <2>1, <2>2, <3>3, <4>1
    <3>6. k # rfun
      <4>1. CASE rfun < rfile
        BY <2>1, <3>2, <4>1
      <4>2. CASE rfun = rfile
        BY <2>2, <3>2, <4>2
      <4> QED BY <2>1, <2>2, <4>1, <4>2
    <3>7. k \in lfun + 1 .. rfun - 1
      BY <2>1, <2>2, <3>3, <3>5, <3>6
    <3> QED BY <3>3, <3>5, <3>7 DEF ParamStabs
  <2>4. \A k \in ParamStabs : k \in lfun .. rfun /\ stabs[k].n_type = N_PSYM
    <3>1. \A k \in lfun + 1 .. rfun - 1 : k \in lfun + 1 .. k /\ k \in lfun .. rfun
      BY <2>1, <2>2
    <3> QED BY <3>1 DEF ParamStabs
  <2> QED BY <2>3, <2>4
<1>5. ASSUME InNoFunction
      PROVE  Cardinality(ParamStabs) = 0
  <2>1. ParamStabs = {}
    <3>1. lfun \in Int /\ rfun = lfun - 1
      BY <1>1, <1>2, <1>5 DEF InNoFunction
    <3>2. lfun + 1 .. rfun - 1 = {}
      BY <3>1
    <3> QED BY <3>2 DEF ParamStabs
  <2> QED BY <2>1, FS_EmptySet
<1> QED BY <1>3, <1>4, <1>5

LEMMA InfoInitInv == InfoInit => DInv
<1> SUFFICES ASSUME InfoInit PROVE DInv
  OBVIOUS
<1>1. /\ stabs \in StabTables /\ eip \in Addrs /\ type = N_SO /\ target = 0
      /\ first = 0 /\ last = N - 1 /\ pc = "done" /\ phase = "entry"
      /\ ret = "none" /\ info = Unknown
  BY DEF InfoInit
<1>2. /\ N \in Nat /\ N >= 1 /\ Indices = 0 .. N - 1 /\ TableInOrder(stabs)
      /\ \A k \in Indices : Value(k) \in Nat
      /\ Types = StabTypes /\ 0 \in Addrs
  BY <1>1, TableIs DEF Indices, Addrs
<1>3. InfoTypeOK
  <2>1. TypeOK
    <3>1. /\ 0 \in first - 1 .. last /\ 0 \in first - 1 .. last + 1
          /\ first \in Indices /\ last \in Indices /\ first <= last
      BY <1>1, <1>2
    <3>2. type \in Types
      BY <1>1, <1>2, StabTypesDiffer
    <3>3. /\ region_left = 0 /\ region_right = 0 /\ l = 0 /\ r = 0
          /\ any_matches = FALSE /\ addr = 0
      BY DEF InfoInit
    <3> QED BY <1>1, <1>2, <3>1, <3>2, <3>3 DEF TypeOK
  <2>2. info \in [file : Indices, line : Indices, fn : Indices,
                  fn_addr : Addrs, narg : 0 .. N]
    BY <1>1, <1>2 DEF Unknown
  <2>3. /\ eip \in Addrs /\ stabstr_ok \in BOOLEAN /\ named \subseteq Indices
        /\ lfile \in Indices /\ rfile \in Indices
        /\ lfun \in Indices /\ rfun \in Indices
    BY <1>1, <1>2 DEF InfoInit
  <2> QED BY <1>1, <2>1, <2>2, <2>3 DEF InfoTypeOK
<1>4. FindsRegion
  <2>1. \A k \in Indices : stabs[k].n_type = N_SO => Value(k) \in 1 .. MaxAddr - 1
    BY <1>2 DEF TableInOrder, Value
  <2>2. Candidates = {}
    BY <1>1, <1>2, <2>1 DEF Candidates, Matching
  <2> QED BY <2>2 DEF FindsRegion
<1>5. Phases
  BY <1>1 DEF Phases, SearchesFor
<1>6. Answered
  BY <1>1 DEF Answered, Unknown
<1>7. AnswersRight
  BY <1>1 DEF AnswersRight
<1> QED BY <1>1, <1>3, <1>4, <1>5, <1>6, <1>7 DEF DInv

(* What does not change with the table and the arguments.                  *)
LEMMA SameFile ==
  ASSUME UNCHANGED <<stabs, fixed, lfile, rfile>>
  PROVE  FoundFile' = FoundFile
<1>1. UNCHANGED <<stabs, eip, lfile, rfile>>
  BY DEF fixed
<1> QED BY <1>1 DEF FoundFile, Value, AtOrBelow

LEMMA SameFun ==
  ASSUME UNCHANGED <<stabs, fixed, regions>>, UNCHANGED <<info.fn, info.fn_addr>>
  PROVE  InFunction' = InFunction /\ InNoFunction' = InNoFunction
<1>1. UNCHANGED <<stabs, eip, named, lfile, rfile, lfun, rfun>>
  BY DEF fixed, regions
<1> QED BY <1>1 DEF InFunction, InNoFunction, Value, AtOrBelow

LEMMA SameSearch ==
  ASSUME UNCHANGED vars
  PROVE  /\ FindsRegion' = FindsRegion /\ TypeOK' = TypeOK /\ UNCHANGED args
         /\ UNCHANGED <<region_left, region_right, pc>>
         /\ IInv => IInv'
<1>1. /\ UNCHANGED args
      /\ UNCHANGED <<region_left, region_right, l, r, any_matches, addr, pc>>
      /\ UNCHANGED <<stabs, type, target, first, last>>
  BY DEF vars, args
<1>2. FindsRegion' = FindsRegion
  BY <1>1, ArgsStay DEF FindsRegion, IsRegionOf
<1>3. TypeOK' = TypeOK
  BY <1>1 DEF TypeOK
<1> QED BY <1>1, <1>2, <1>3, StepInv

(* debuginfo_eip returns before it has searched, or because it found no    *)
(* file.                                                                   *)
LEMMA LeaveStep ==
  ASSUME DInv, UserAddress \/ BadStringTable \/ NoFile
  PROVE  DInv'
<1>1. /\ UNCHANGED <<vars, fixed, regions, info>> /\ phase' = "done"
      /\ pc = "done"
      /\ \/ ret' = "panic"
         \/ ret' = "-1" /\ ~stabstr_ok
         \/ ret' = "-1" /\ AtOrBelow(N_SO, 0, N - 1, eip) = {}
  BY FileFound DEF UserAddress, BadStringTable, NoFile, Leave, Returned, DInv
<1>2. /\ UNCHANGED <<eip, stabstr_ok, named, lfile, rfile, lfun, rfun>>
      /\ UNCHANGED stabs
  BY <1>1 DEF fixed, regions, vars, args
<1>3. InfoTypeOK'
  BY <1>1, <1>2, SameSearch DEF DInv, InfoTypeOK
<1>4. AnswersRight'
  BY <1>1, <1>2, SameTable DEF AnswersRight
<1> QED BY <1>1, <1>3, <1>4, SameSearch DEF DInv, Phases, Answered

LEMMA FileStep ==
  ASSUME DInv, SearchFile
  PROVE  DInv'
<1>1. /\ stab_binsearch(0, N - 1, N_SO, eip) /\ phase' = "file"
      /\ UNCHANGED <<fixed, regions, info, ret>> /\ phase = "entry"
      /\ ret = "none" /\ info = Unknown
  BY DEF SearchFile, DInv, Answered
<1>2. /\ stabs \in StabTables /\ eip \in Addrs
  BY DEF DInv, InfoTypeOK, TypeOK
<1>3. /\ N \in Nat /\ N >= 1 /\ Indices = 0 .. N - 1 /\ TableInOrder(stabs)
      /\ N_SO \in Types
  BY <1>2, TableIs, StabTypesDiffer DEF Indices
<1>4. /\ IInv' /\ UNCHANGED stabs /\ pc' = "search"
      /\ type' = N_SO /\ first' = 0 /\ last' = N - 1 /\ target' = eip
  <2>1. 0 \in Indices /\ N - 1 \in Indices /\ 0 <= N - 1
    BY <1>3
  <2>2. Ascending(stabs, N_SO, {})
    BY <1>3 DEF TableInOrder
  <2>3. \A k \in 0 + 1 .. N - 1 : stabs[k].n_type \notin {}
    OBVIOUS
  <2> QED BY <1>1, <1>2, <1>3, <2>1, <2>2, <2>3, CallInv
<1>5. UNCHANGED <<eip, stabstr_ok, named, lfile, rfile, lfun, rfun>>
  BY <1>1 DEF fixed, regions
<1>6. InfoTypeOK'
  BY <1>1, <1>4, <1>5 DEF DInv, InfoTypeOK, IInv
<1>7. FindsRegion'
  BY <1>4 DEF FindsRegion
<1>8. Phases'
  BY <1>1, <1>4, <1>5 DEF Phases, SearchesFor
<1>9. Answered'
  BY <1>1, <1>5 DEF Answered, Unknown
<1>10. AnswersRight'
  BY <1>1 DEF AnswersRight
<1> QED BY <1>1, <1>4, <1>6, <1>7, <1>8, <1>9, <1>10 DEF DInv

(* A step of the search that is running.                                   *)
LEMMA SearchingStep ==
  ASSUME DInv, Searching
  PROVE  DInv'
<1>1. /\ phase \in {"file", "fun", "line"} /\ Next /\ UNCHANGED infovars
  BY DEF Searching
<1>2. /\ UNCHANGED <<fixed, regions, info, phase, ret>>
      /\ UNCHANGED <<eip, stabstr_ok, named, lfile, rfile, lfun, rfun>>
  BY <1>1 DEF infovars, fixed, regions
<1>3. UNCHANGED <<stabs, type, target, first, last>>
  <2>1. UNCHANGED args
    BY <1>1 DEF Next, NoMatch, GoRight, GoLeft, ExactMatch, EndSearch, Back,
                Return
  <2> QED BY <2>1, ArgsStay
<1>4. IInv'
  BY <1>1, StepInv DEF DInv
<1>5. InfoTypeOK'
  BY <1>2, <1>4 DEF DInv, InfoTypeOK, IInv
<1>6. FindsRegion'
  <2>1. (IInv => FindsRegion)'
    BY Found, PTL
  <2> QED BY <1>4, <2>1
<1>7. (phase \in {"fun", "line", "found"} => FoundFile)'
  BY <1>2, <1>3, SameFile DEF DInv
<1>8. Phases'
  BY <1>1, <1>2, <1>3, SameFun, SameTable DEF DInv, Phases, SearchesFor
<1>9. Answered'
  BY <1>1, <1>2 DEF DInv, Answered, Unknown
<1>10. AnswersRight'
  BY <1>1, <1>2 DEF DInv, Answered, AnswersRight
<1> QED BY <1>1, <1>2, <1>4, <1>5, <1>6, <1>7, <1>8, <1>9, <1>10 DEF DInv

LEMMA FunStep ==
  ASSUME DInv, SearchFun
  PROVE  DInv'
<1>1. /\ Returned("file") /\ region_left # 0 /\ phase = "file"
      /\ lfile' = region_left /\ rfile' = region_right
      /\ stab_binsearch(region_left, region_right, N_FUN, eip)
      /\ phase' = "fun"
      /\ UNCHANGED <<fixed, lfun, rfun, info, ret>>
      /\ ret = "none" /\ info = Unknown
  BY DEF SearchFun, DInv, Answered, Returned
<1>2. /\ stabs \in StabTables /\ eip \in Addrs
  BY DEF DInv, InfoTypeOK, TypeOK
<1>3. /\ N \in Nat /\ N >= 1 /\ Indices = 0 .. N - 1 /\ TableInOrder(stabs)
      /\ N_FUN \in Types
  BY <1>2, TableIs, StabTypesDiffer DEF Indices
<1>4. /\ region_left \in 1 .. N - 1
      /\ region_right \in region_left .. N - 1
      /\ stabs[region_left].n_type = N_SO /\ Value(region_left) <= eip
      /\ \A k \in region_left + 1 .. region_right : stabs[k].n_type # N_SO
      /\ \A k \in AtOrBelow(N_SO, 0, N - 1, eip) : k <= region_left
      /\ region_right < N - 1 => stabs[region_right + 1].n_type = N_SO
  BY <1>1, FileFound
<1>5. /\ IInv' /\ UNCHANGED stabs /\ pc' = "search"
      /\ type' = N_FUN /\ first' = region_left /\ last' = region_right
      /\ target' = eip
  <2>1. /\ region_left \in Indices /\ region_right \in Indices
        /\ region_left <= region_right
    BY <1>3, <1>4
  <2>2. Ascending(stabs, N_FUN, {N_SO})
    BY <1>3 DEF TableInOrder
  <2>3. \A k \in region_left + 1 .. region_right : stabs[k].n_type \notin {N_SO}
    BY <1>4
  <2> QED BY <1>1, <1>2, <1>3, <2>1, <2>2, <2>3, CallInv
<1>6. UNCHANGED <<eip, stabstr_ok, named>>
  BY <1>1 DEF fixed
<1>7. InfoTypeOK'
  <2>1. region_left \in Indices /\ region_right \in Indices
    BY <1>3, <1>4
  <2>2. TypeOK'
    BY <1>5 DEF IInv
  <2> QED BY <1>1, <1>6, <2>1, <2>2 DEF DInv, InfoTypeOK
<1>8. FindsRegion'
  BY <1>5 DEF FindsRegion
<1>9. FoundFile'
  BY <1>1, <1>4, <1>5, <1>6, SameTable DEF FoundFile
<1>10. Phases'
  BY <1>1, <1>5, <1>6 DEF Phases, SearchesFor
<1>11. Answered'
  BY <1>1, <1>6 DEF Answered, Unknown
<1>12. AnswersRight'
  BY <1>1 DEF AnswersRight
<1> QED BY <1>1, <1>5, <1>7, <1>8, <1>9, <1>10, <1>11, <1>12 DEF DInv

LEMMA LineStep ==
  ASSUME DInv, SearchLine
  PROVE  DInv'
<1>1. /\ Returned("fun") /\ phase = "fun" /\ phase' = "line"
      /\ lfun' = region_left /\ rfun' = region_right
      /\ UNCHANGED <<fixed, lfile, rfile, ret>>
      /\ ret = "none" /\ info = Unknown
  BY DEF SearchLine, DInv, Answered, Returned
<1>2. /\ stabs \in StabTables /\ eip \in Addrs /\ FoundFile
      /\ info \in [file : Indices, line : Indices, fn : Indices,
                   fn_addr : Addrs, narg : 0 .. N]
  BY <1>1 DEF DInv, InfoTypeOK, TypeOK
<1>3. /\ N \in Nat /\ N >= 1 /\ Indices = 0 .. N - 1 /\ TableInOrder(stabs)
      /\ N_SLINE \in Types /\ MaxAddr \in Nat /\ Addrs = 0 .. MaxAddr
      /\ \A k \in Indices : Value(k) \in Nat
  BY <1>2, TableIs, StabTypesDiffer DEF Indices, Addrs
<1>4. /\ lfile \in 1 .. N - 1 /\ rfile \in lfile .. N - 1
      /\ \A k \in lfile + 1 .. rfile : stabs[k].n_type # N_SO
  BY <1>2 DEF FoundFile
<1>5. UNCHANGED <<eip, stabstr_ok, named>>
  BY <1>1 DEF fixed
<1>6. Ascending(stabs, N_SLINE, {N_SO, N_FUN})
  BY <1>3 DEF TableInOrder
<1>7. /\ UNCHANGED stabs /\ pc' = "search" /\ IInv'
      /\ lfun' \in Indices /\ rfun' \in Indices \cup {lfun' - 1}
      /\ info' \in [file : Indices, line : Indices, fn : Indices,
                    fn_addr : Addrs, narg : 0 .. N]
      /\ info'.file = 0 /\ info'.narg = 0 /\ info'.line = 0
      /\ \/ InFunction' /\ SearchesFor(N_SLINE, lfun, rfun, eip - Value(lfun))'
         \/ InNoFunction' /\ SearchesFor(N_SLINE, lfile, rfile, eip)'
  <2>1. CASE /\ region_left \in lfile + 1 .. rfile
             /\ region_right \in region_left .. rfile
             /\ stabs[region_left].n_type = N_FUN /\ Value(region_left) <= eip
             /\ \A k \in region_left + 1 .. region_right :
                  stabs[k].n_type # N_FUN
             /\ \A k \in AtOrBelow(N_FUN, lfile, rfile, eip) : k <= region_left
             /\ region_right < rfile => stabs[region_right + 1].n_type = N_FUN
    <3>1. region_left <= region_right
      BY <1>4, <2>1
    <3>2. /\ region_left \in Indices /\ region_right \in Indices
      BY <1>3, <1>4, <2>1
    <3>3. /\ info' = [info EXCEPT
                 !.fn = IF region_left \in named THEN region_left ELSE 0,
                 !.fn_addr = Value(region_left)]
          /\ stab_binsearch(region_left, region_right, N_SLINE,
                            eip - Value(region_left))
      BY <3>1 DEF SearchLine
    <3>4. eip - Value(region_left) \in Addrs /\ Value(region_left) \in Addrs
      BY <1>2, <1>3, <2>1, <3>2
    <3>5. \A k \in region_left + 1 .. region_right :
             stabs[k].n_type \notin {N_SO, N_FUN}
      <4>1. \A k \in region_left + 1 .. region_right : k \in lfile + 1 .. rfile
        BY <1>4, <2>1
      <4> QED BY <1>4, <2>1, <4>1
    <3>6. /\ IInv' /\ UNCHANGED stabs /\ pc' = "search"
          /\ type' = N_SLINE /\ first' = region_left /\ last' = region_right
          /\ target' = eip - Value(region_left)
      BY <1>2, <1>3, <1>6, <3>1, <3>2, <3>3, <3>4, <3>5, CallInv
    <3>7. /\ info' \in [file : Indices, line : Indices, fn : Indices,
                        fn_addr : Addrs, narg : 0 .. N]
          /\ info'.file = 0 /\ info'.narg = 0 /\ info'.line = 0
          /\ info'.fn = (IF region_left \in named THEN region_left ELSE 0)
          /\ info'.fn_addr = Value(region_left)
      BY <1>1, <1>2, <1>3, <3>2, <3>3, <3>4 DEF Unknown
    <3>8. InFunction'
      BY <1>1, <1>5, <2>1, <3>6, <3>7, SameTable DEF InFunction
    <3>9. SearchesFor(N_SLINE, lfun, rfun, eip - Value(lfun))'
      BY <1>1, <1>5, <3>6, SameTable DEF SearchesFor
    <3> QED BY <1>1, <3>2, <3>6, <3>7, <3>8, <3>9
  <2>2. CASE /\ region_left = lfile /\ region_right = lfile - 1
             /\ \A k \in lfile .. rfile : stabs[k].n_type # N_FUN
    <3>1. ~(region_left <= region_right)
      BY <1>4, <2>2
    <3>2. /\ info' = [info EXCEPT !.fn_addr = eip]
          /\ stab_binsearch(lfile, rfile, N_SLINE, eip)
      BY <3>1 DEF SearchLine
    <3>3. lfile \in Indices /\ rfile \in Indices /\ lfile <= rfile
      BY <1>3, <1>4
    <3>4. \A k \in lfile + 1 .. rfile : stabs[k].n_type \notin {N_SO, N_FUN}
      BY <1>4, <2>2
    <3>5. /\ IInv' /\ UNCHANGED stabs /\ pc' = "search"
          /\ type' = N_SLINE /\ first' = lfile /\ last' = rfile
          /\ target' = eip
      BY <1>2, <1>3, <1>6, <3>2, <3>3, <3>4, CallInv
    <3>6. /\ info' \in [file : Indices, line : Indices, fn : Indices,
                        fn_addr : Addrs, narg : 0 .. N]
          /\ info'.file = 0 /\ info'.narg = 0 /\ info'.line = 0
          /\ info'.fn = 0 /\ info'.fn_addr = eip
      BY <1>1, <1>2, <3>2 DEF Unknown
    <3>7. InNoFunction'
      BY <1>1, <1>5, <2>2, <3>5, <3>6 DEF InNoFunction
    <3>8. SearchesFor(N_SLINE, lfile, rfile, eip)'
      BY <1>1, <1>5, <3>5 DEF SearchesFor
    <3> QED BY <1>1, <2>2, <3>3, <3>5, <3>6, <3>7, <3>8
  <2> QED BY <1>1, <2>1, <2>2, FunFound
<1>8. InfoTypeOK'
  BY <1>1, <1>5, <1>7 DEF DInv, InfoTypeOK, IInv
<1>9. FindsRegion'
  BY <1>7 DEF FindsRegion
<1>10. FoundFile'
  BY <1>1, <1>2, <1>7, SameFile
<1>11. Phases'
  BY <1>1, <1>7 DEF Phases
<1>12. Answered'
  BY <1>1, <1>7 DEF Answered
<1>13. AnswersRight'
  BY <1>1 DEF AnswersRight
<1> QED BY <1>1, <1>7, <1>8, <1>9, <1>10, <1>11, <1>12, <1>13 DEF DInv

LEMMA LineFoundStep ==
  ASSUME DInv, FoundLine
  PROVE  DInv'
<1>1. /\ phase = "line" /\ phase' = "found" /\ pc = "done" /\ IInv
      /\ UNCHANGED <<vars, fixed, regions, ret>>
      /\ info' = IF region_left <= region_right
                 THEN [info EXCEPT !.line = region_left] ELSE info
      /\ ret = "none" /\ info.file = 0 /\ info.narg = 0 /\ info.line = 0
      /\ FoundFile
      /\ info \in [file : Indices, line : Indices, fn : Indices,
                   fn_addr : Addrs, narg : 0 .. N]
  BY DEF FoundLine, DInv, Answered, Returned, InfoTypeOK
<1>2. /\ UNCHANGED <<eip, stabstr_ok, named, lfile, rfile, lfun, rfun>>
      /\ UNCHANGED <<stabs, type, target, first, last>>
  BY <1>1 DEF fixed, regions, vars, args
<1>3. region_left \in Indices
  <2>1. /\ region_left \in first - 1 .. last /\ last \in Indices
        /\ \/ InFunction /\ first = lfun /\ last = rfun
           \/ InNoFunction /\ first = lfile /\ last = rfile
        /\ stabs \in StabTables
    BY <1>1 DEF DInv, InfoTypeOK, TypeOK, Phases, SearchesFor
  <2>2. lfile \in 1 .. N - 1
    BY <1>1 DEF FoundFile
  <2>3. first \in 1 .. N - 1
    <3>1. InFunction => lfun \in lfile + 1 .. rfile
      BY DEF InFunction
    <3>2. rfile \in Indices /\ N \in Nat
      BY <2>1, TableIs DEF DInv, InfoTypeOK
    <3> QED BY <2>1, <2>2, <3>1, <3>2 DEF Indices
  <2>4. N \in Nat
    BY <2>1, TableIs
  <2> QED BY <2>1, <2>3, <2>4 DEF Indices
<1>4. /\ info' \in [file : Indices, line : Indices, fn : Indices,
                    fn_addr : Addrs, narg : 0 .. N]
      /\ info'.file = 0 /\ info'.narg = 0
      /\ info'.line = IF region_left <= region_right THEN region_left ELSE 0
      /\ UNCHANGED <<info.fn, info.fn_addr>>
  BY <1>1, <1>3
<1>5. InfoTypeOK'
  BY <1>1, <1>2, <1>4, SameSearch DEF DInv, InfoTypeOK
<1>6. FoundFile' /\ InFunction' = InFunction /\ InNoFunction' = InNoFunction
  BY <1>1, <1>2, <1>4, SameFile, SameFun
<1>7. Phases'
  BY <1>1, <1>2, <1>6, SameTable DEF DInv, Phases, SearchesFor
<1>8. Answered'
  BY <1>1, <1>4, SameSearch DEF Answered
<1>9. AnswersRight'
  BY <1>1 DEF AnswersRight
<1> QED
  BY <1>1, <1>5, <1>6, <1>7, <1>8, <1>9, SameSearch DEF DInv

(* The reading of the table depends only on the table and the address.     *)
LEMMA SameReading ==
  ASSUME UNCHANGED vars, UNCHANGED eip
  PROVE  /\ UNCHANGED <<TheFile, FileEnd, TheFuns, TheFun, TheLines>>
         /\ ApartFromTarget' = ApartFromTarget
         /\ \A k : Value(k)' = Value(k)
         /\ \A k : NamesFile(k)' <=> NamesFile(k)
         /\ \A t, k, hi : EndOf(t, k, hi)' = EndOf(t, k, hi)
         /\ UNCHANGED stabs
<1>1. UNCHANGED args /\ UNCHANGED <<stabs, region_left, region_right>>
  BY DEF vars, args
<1>2. /\ \A k : Value(k)' = Value(k)
      /\ \A t, lo, hi, a : AtOrBelow(t, lo, hi, a)' = AtOrBelow(t, lo, hi, a)
      /\ \A k : NamesFile(k)' <=> NamesFile(k)
  BY <1>1, SameTable
<1>3. \A t, k, hi : EndOf(t, k, hi)' = EndOf(t, k, hi)
  BY <1>1 DEF EndOf
<1>4. UNCHANGED TheFile
  BY <1>2 DEF TheFile
<1>5. UNCHANGED FileEnd
  BY <1>3, <1>4 DEF FileEnd
<1>6. UNCHANGED TheFuns
  BY <1>2, <1>4, <1>5 DEF TheFuns
<1>7. UNCHANGED TheFun
  BY <1>6 DEF TheFun
<1>8. UNCHANGED TheLines
  BY <1>2, <1>3, <1>4, <1>5, <1>6, <1>7 DEF TheLines
<1> QED BY <1>1, <1>2, <1>3, <1>4, <1>5, <1>6, <1>7, <1>8, ArgsStay

(* The scan back from the line meets the stab of the file at the latest.   *)
LEMMA FileNamed ==
  ASSUME DInv, phase = "found"
  PROVE  /\ FileStabs # {} => Last(FileStabs) \in Indices
         /\ TheLines # {} /\ ApartFromTarget =>
              /\ FileStabs # {}
              /\ info.line = region_left /\ region_left = Last(TheLines)
<1>1. /\ IInv /\ TypeOK /\ stabs \in StabTables /\ pc = "done" /\ FoundFile
      /\ \/ InFunction /\ first = lfun /\ last = rfun
         \/ InNoFunction /\ first = lfile /\ last = rfile
      /\ info.line = IF region_left <= region_right THEN region_left ELSE 0
  <2>1. IInv /\ TypeOK /\ stabs \in StabTables /\ FoundFile
    BY DEF DInv, InfoTypeOK, TypeOK
  <2>2. \/ InFunction /\ first = lfun /\ last = rfun
        \/ InNoFunction /\ first = lfile /\ last = rfile
    BY DEF DInv, Phases, SearchesFor
  <2>3. /\ pc = "done"
        /\ info.line = IF region_left <= region_right THEN region_left ELSE 0
    BY DEF DInv, Answered
  <2> QED BY <2>1, <2>2, <2>3
<1>2. /\ N \in Nat /\ N >= 1 /\ Indices = 0 .. N - 1 /\ TableInOrder(stabs)
  BY <1>1, TableIs DEF Indices
<1>3. /\ lfile \in 1 .. N - 1 /\ rfile \in lfile .. N - 1
      /\ stabs[lfile].n_type = N_SO
  BY <1>1 DEF FoundFile
<1>4. /\ first \in lfile .. N - 1 /\ last \in first .. N - 1
      /\ region_left \in first - 1 .. last
  <2>1. InFunction => lfun \in lfile + 1 .. rfile
    BY DEF InFunction
  <2>2. lfile \in lfile .. N - 1 /\ (InFunction => lfun \in lfile .. N - 1)
    <3>1. lfile \in lfile .. N - 1
      BY <1>3
    <3>2. \A k \in lfile + 1 .. rfile : k \in lfile .. N - 1
      BY <1>2, <1>3
    <3> QED BY <2>1, <3>1, <3>2
  <2>3. first \in lfile .. N - 1 /\ first <= last /\ last \in 0 .. N - 1
    BY <1>1, <1>2, <2>2 DEF TypeOK
  <2> QED BY <1>1, <1>2, <2>3 DEF TypeOK
<1>5. FileStabs \subseteq 0 .. N - 1
  <2>1. lfile .. region_left \subseteq 0 .. N - 1
    BY <1>2, <1>3, <1>4
  <2>2. FileStabs \subseteq lfile .. region_left
    BY DEF FileStabs
  <2> QED BY <2>1, <2>2
<1>6. FileStabs # {} => Last(FileStabs) \in Indices
  <2>1. 0 \in Nat /\ N - 1 \in Nat
    BY <1>2
  <2> QED BY <1>2, <1>5, <2>1, HasLast
<1>7. ASSUME TheLines # {}, ApartFromTarget
      PROVE  /\ FileStabs # {}
             /\ info.line = region_left /\ region_left = Last(TheLines)
  <2>1. TheLines = Candidates
    BY Reading
  <2>2. region_left <= region_right /\ region_left = Last(Candidates)
    BY <1>1, <1>7, <2>1, LineFound
  <2>3. region_left \in first .. last
    <3>1. IsRegionOf(region_left, region_right)
      BY <1>1, <1>7, <2>1, SearchResult
    <3> QED BY <3>1, <1>1, TableFacts DEF IsRegionOf, Candidates
  <2>4. NamesFile(lfile)
    <3>1. stabs[lfile].n_value \in 1 .. MaxAddr - 1
      BY <1>2, <1>3 DEF TableInOrder
    <3> QED BY <1>3, <3>1 DEF NamesFile, Value
  <2>5. lfile \in lfile .. region_left
    BY <1>3, <1>4, <2>3
  <2>6. lfile \in FileStabs
    BY <2>4, <2>5 DEF FileStabs
  <2> QED BY <1>1, <2>1, <2>2, <2>6
<1> QED BY <1>6, <1>7

LEMMA FinishStep ==
  ASSUME DInv, Finish
  PROVE  DInv'
<1>1. /\ phase = "found" /\ phase' = "done" /\ ret' = "0" /\ pc = "done"
      /\ UNCHANGED <<vars, fixed, regions>>
      /\ info' = [info EXCEPT
           !.file = IF FileStabs # {} /\ Last(FileStabs) \in named
                    THEN Last(FileStabs) ELSE @,
           !.narg = Cardinality(ParamStabs)]
      /\ IInv /\ named \subseteq Indices
      /\ info \in [file : Indices, line : Indices, fn : Indices,
                   fn_addr : Addrs, narg : 0 .. N]
      /\ info.line = IF region_left <= region_right THEN region_left ELSE 0
      /\ InFunction \/ InNoFunction
  BY DEF Finish, Leave, DInv, Answered, InfoTypeOK, Phases
<1>2. /\ UNCHANGED <<eip, stabstr_ok, named, lfile, rfile, lfun, rfun>>
      /\ UNCHANGED stabs
  BY <1>1 DEF fixed, regions, vars, args
<1>3. Cardinality(ParamStabs) \in 0 .. N
  BY <1>1, Params
<1> DEFINE f == IF FileStabs # {} /\ Last(FileStabs) \in named
                THEN Last(FileStabs) ELSE info.file
<1>4. f \in Indices
  BY <1>1
<1>5. /\ info' \in [file : Indices, line : Indices, fn : Indices,
                    fn_addr : Addrs, narg : 0 .. N]
      /\ UNCHANGED <<info.line, info.fn, info.fn_addr>>
      /\ info'.file = f /\ info'.narg = Cardinality(ParamStabs)
  <2>1. info' = [info EXCEPT !.file = f, !.narg = Cardinality(ParamStabs)]
    BY <1>1
  <2> HIDE DEF f
  <2> QED BY <1>1, <1>3, <1>4, <2>1
<1>6. InfoTypeOK'
  BY <1>1, <1>2, <1>5, SameSearch DEF DInv, InfoTypeOK
<1>7. /\ TheFile = lfile /\ FileEnd = rfile
      /\ InFunction => /\ TheFuns # {} /\ TheFun = lfun
                       /\ EndOf(N_FUN, TheFun, FileEnd) = rfun
      /\ InNoFunction => TheFuns = {}
  BY <1>1, Reading
<1>8. ASSUME named = Indices
      PROVE  IF TheFuns = {} THEN info'.fn = 0 /\ info'.fn_addr = eip
             ELSE info'.fn = TheFun /\ info'.fn_addr = Value(TheFun)
  <2>1. CASE InFunction
    <3>1. lfun \in named
      BY <1>8 DEF DInv, InfoTypeOK
    <3> QED BY <1>5, <1>7, <2>1, <3>1 DEF InFunction
  <2>2. CASE InNoFunction
    BY <1>5, <1>7, <2>2 DEF InNoFunction
  <2> QED BY <1>1, <2>1, <2>2
<1>9. ASSUME named = Indices
      PROVE  IF TheLines = {} THEN info'.line \in {0, TheFile}
             ELSE ApartFromTarget =>
               /\ info'.line = Last(TheLines)
               /\ info'.file =
                    Last({k \in TheFile .. info'.line : NamesFile(k)})
  <2>1. CASE TheLines = {}
    <3>1. Candidates = {}
      BY <1>1, <2>1, Reading
    <3>2. region_left > region_right \/ region_left = lfile
      BY <1>1, <3>1, LineFound
    <3>3. region_left \in Int /\ region_right \in Int
      BY <1>1, TableFacts DEF IInv, TypeOK
    <3> QED BY <1>1, <1>5, <1>7, <2>1, <3>2, <3>3
  <2>2. CASE TheLines # {} /\ ApartFromTarget
    <3>1. /\ FileStabs # {} /\ Last(FileStabs) \in Indices
          /\ info.line = region_left /\ region_left = Last(TheLines)
      BY <1>1, <2>2, FileNamed
    <3>2. info'.file = Last(FileStabs)
      BY <1>5, <1>9, <3>1
    <3> QED BY <1>5, <1>7, <2>2, <3>1, <3>2 DEF FileStabs
  <2> QED BY <2>1, <2>2
<1>10. info'.narg = IF TheFuns = {} THEN 0
                    ELSE Cardinality({k \in TheFun .. EndOf(N_FUN, TheFun, FileEnd) :
                                        stabs[k].n_type = N_PSYM})
  <2>1. CASE InFunction
    <3>1. ParamStabs = {k \in lfun .. rfun : stabs[k].n_type = N_PSYM}
      BY <1>1, <2>1, Params
    <3> QED BY <1>5, <1>7, <2>1, <3>1
  <2>2. CASE InNoFunction
    BY <1>1, <1>5, <1>7, <2>2, Params
  <2> QED BY <1>1, <2>1, <2>2
<1>11. AnswersRight'
  <2>1. /\ UNCHANGED <<TheFile, FileEnd, TheFuns, TheFun, TheLines>>
        /\ ApartFromTarget' = ApartFromTarget
        /\ \A k : Value(k)' = Value(k)
        /\ \A k : NamesFile(k)' <=> NamesFile(k)
        /\ \A t, k, hi : EndOf(t, k, hi)' = EndOf(t, k, hi)
    BY <1>1, <1>2, SameReading
  <2> QED BY <1>1, <1>2, <1>8, <1>9, <1>10, <2>1 DEF AnswersRight
<1> QED
  BY <1>1, <1>6, <1>11, SameSearch DEF DInv, Phases, Answered

LEMMA InfoStep == DInv /\ [InfoNext]_allvars => DInv'
<1> SUFFICES ASSUME DInv, [InfoNext]_allvars PROVE DInv'
  OBVIOUS
<1>1. CASE UNCHANGED allvars
  <2>1. /\ UNCHANGED vars
        /\ UNCHANGED <<fixed, regions, info, phase, ret>>
        /\ UNCHANGED <<eip, stabstr_ok, named, lfile, rfile, lfun, rfun>>
        /\ UNCHANGED <<stabs, type, target, first, last, region_left, region_right>>
    BY <1>1 DEF allvars, infovars, fixed, regions, vars, args
  <2>2. /\ InfoTypeOK' /\ FindsRegion'
        /\ (phase \in {"file", "fun", "line", "found"} => IInv)'
        /\ (phase \in {"entry", "done"} => pc = "done")'
    BY <2>1, SameSearch DEF DInv, InfoTypeOK
  <2>3. (phase \in {"fun", "line", "found"} => FoundFile)'
    BY <2>1, SameFile DEF DInv
  <2>4. Phases'
    BY <2>1, SameFun, SameTable, SameSearch DEF DInv, Phases, SearchesFor
  <2>5. Answered'
    BY <2>1, SameSearch DEF DInv, Answered, Unknown
  <2>6. AnswersRight'
    <3>1. AtOrBelow(N_SO, 0, N - 1, eip)' = AtOrBelow(N_SO, 0, N - 1, eip)
      BY <2>1, SameTable
    <3>2. /\ UNCHANGED <<TheFile, FileEnd, TheFuns, TheFun, TheLines>>
          /\ ApartFromTarget' = ApartFromTarget
          /\ \A k : Value(k)' = Value(k)
          /\ \A k : NamesFile(k)' <=> NamesFile(k)
          /\ \A t, k, hi : EndOf(t, k, hi)' = EndOf(t, k, hi)
      BY <2>1, SameReading
    <3>3. AnswersRight
      BY DEF DInv
    <3> QED BY <2>1, <3>1, <3>2, <3>3 DEF AnswersRight
  <2> QED BY <2>2, <2>3, <2>4, <2>5, <2>6 DEF DInv
<1> QED
  BY <1>1, LeaveStep, FileStep, SearchingStep, FunStep, LineStep,
     LineFoundStep, FinishStep DEF InfoNext

-----------------------------------------------------------------------------
(* Every one of the three searches keeps the condition stab_binsearch      *)
(* asks for, a region of the table that is not empty and in order, and no  *)
(* entry outside the region is looked at, for every table in order.        *)
THEOREM InfoCallsInOrder == InfoSpec => []CallsInOrder
<1>1. DInv => CallsInOrder
  <2> SUFFICES ASSUME DInv PROVE CallsInOrder
    OBVIOUS
  <2>1. InfoTypeOK
    BY DEF DInv
  <2>2. ASSUME phase \in {"file", "fun", "line", "found"}
        PROVE  Sorted /\ ProbesInside
    BY <2>2, Inside DEF DInv, IInv
  <2>3. ASSUME phase \in {"entry", "done"}
        PROVE  pc = "done" /\ ProbesInside
    BY <2>3 DEF DInv, ProbesInside
  <2>4. 0 <= first /\ first <= last /\ last < N
    <3>1. TypeOK /\ stabs \in StabTables
      BY <2>1 DEF InfoTypeOK, TypeOK
    <3> QED BY <3>1, TableFacts, TableIs
  <2> QED BY <2>1, <2>2, <2>3, <2>4 DEF CallsInOrder, InfoTypeOK
<1> QED BY <1>1, InfoInitInv, InfoStep, PTL DEF InfoSpec

(* debuginfo_eip answers with the file, the function, its parameters and   *)
(* the line that an ordered reading of the table gives, and refuses only   *)
(* an address below every file.                                            *)
THEOREM InfoAnswersRight == InfoSpec => []AnswersRight
<1>1. DInv => AnswersRight
  BY DEF DInv
<1> QED BY <1>1, InfoInitInv, InfoStep, PTL DEF InfoSpec

(* What stab_binsearch promises it keeps in each of the three calls.       *)
THEOREM InfoFindsRegion == InfoSpec => []FindsRegion
<1>1. DInv => FindsRegion
  BY DEF DInv
<1> QED BY <1>1, InfoInitInv, InfoStep, PTL DEF InfoSpec
=============================================================================

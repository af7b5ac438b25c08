----------------------------- MODULE StabSearch -----------------------------
(***************************************************************************)
(* stab_binsearch() of kern/kdebug.c, one step per iteration of its loop:  *)
(* a binary search for the stab of one type that contains an address, in a *)
(* table where the stabs of that type are sorted but mixed with others.    *)
(*                                                                         *)
(* target, first and last remember the arguments, which the code changes   *)
(* in place.                                                               *)
(***************************************************************************)
EXTENDS Integers

CONSTANTS
  N,           \* entries of the table
  MaxAddr,     \* 2^32 - 1
  Types,       \* values of n_type
  StabTables   \* the tables to search

Indices == 0 .. N - 1

Addrs == 0 .. MaxAddr

Stab == [n_type : Types, n_value : Addrs]

ASSUME StabAssumption ==
  /\ N \in Nat \ {0}
  /\ MaxAddr \in Nat
  /\ StabTables \subseteq [Indices -> Stab]

VARIABLES
  stabs, type,                  \* the table and the type looked for
  target, first, last,          \* addr, *region_left, *region_right on entry
  region_left, region_right,    \* the region as the search narrows it
  l, r, any_matches, addr,      \* locals
  pc                            \* "search", "rightmost" or "done"

args == <<stabs, type, target, first, last>>
vars == <<args, region_left, region_right, l, r, any_matches, addr, pc>>

(* The stabs of the region that have the right type.                       *)
Matching == {k \in first .. last : stabs[k].n_type = type}

Value(k) == stabs[k].n_value

(* The cursors leave the region by one entry at most.                      *)
TypeOK ==
  /\ stabs \in StabTables /\ type \in Types
  /\ target \in Addrs /\ addr \in Addrs
  /\ first \in Indices /\ last \in Indices /\ first <= last
  /\ region_left \in first - 1 .. last
  /\ region_right \in first - 1 .. last
  /\ l \in first - 1 .. last + 1
  /\ r \in first - 1 .. last
  /\ any_matches \in BOOLEAN
  /\ pc \in {"search", "rightmost", "done"}

(* The comment of the function asks for increasing addresses.              *)
Sorted ==
  \A j, k \in Matching : j < k => Value(j) <= Value(k)

Init ==
  /\ stabs \in StabTables
  /\ type \in Types
  /\ target \in Addrs
  /\ first \in Indices /\ last \in Indices /\ first <= last
  /\ Sorted
  /\ region_left = first /\ region_right = last
  /\ l = first /\ r = last
  /\ any_matches = FALSE
  /\ addr = target
  /\ pc = "search"

-----------------------------------------------------------------------------
true_m == (l + r) \div 2

(* m after the inner loop: the last matching stab of l .. true_m.          *)
IsProbe(m) ==
  /\ m \in l .. true_m
  /\ stabs[m].n_type = type
  /\ \A k \in m + 1 .. true_m : stabs[k].n_type # type

NoMatch ==
  /\ pc = "search" /\ l <= r
  /\ \A k \in l .. true_m : stabs[k].n_type # type
  /\ l' = true_m + 1
  /\ UNCHANGED <<args, region_left, region_right, r, any_matches, addr, pc>>

GoRight(m) ==
  /\ pc = "search" /\ l <= r /\ IsProbe(m)
  /\ Value(m) < addr
  /\ any_matches' = TRUE
  /\ region_left' = m
  /\ l' = true_m + 1
  /\ UNCHANGED <<args, region_right, r, addr, pc>>

GoLeft(m) ==
  /\ pc = "search" /\ l <= r /\ IsProbe(m)
  /\ Value(m) > addr
  /\ any_matches' = TRUE
  /\ region_right' = m - 1
  /\ r' = m - 1
  /\ UNCHANGED <<args, region_left, l, addr, pc>>

ExactMatch_same_addr(m) ==
  /\ pc = "search" /\ l <= r /\ IsProbe(m)
  /\ Value(m) = addr
  /\ any_matches' = TRUE
  /\ region_left' = m
  /\ l' = m
  /\ UNCHANGED <<args, region_right, r, addr, pc>>

(* addr++ wraps like the uintptr_t it is.                                  *)
ExactMatch(m) ==
  /\ pc = "search" /\ l <= r /\ IsProbe(m)
  /\ Value(m) = addr
  /\ any_matches' = TRUE
  /\ region_left' = m
  /\ l' = m
  /\ addr' = IF addr = MaxAddr THEN 0 ELSE addr + 1
  /\ UNCHANGED <<args, region_right, r, pc>>

EndSearch ==
  /\ pc = "search" /\ l > r
  /\ IF any_matches
     THEN /\ pc' = "rightmost"
          /\ l' = region_right
          /\ UNCHANGED region_right
     ELSE /\ pc' = "done"
          /\ region_right' = region_left - 1
          /\ UNCHANGED l
  /\ UNCHANGED <<args, region_left, r, any_matches, addr>>

(* The last loop: back from *region_right to a matching stab.              *)
Back ==
  /\ pc = "rightmost"
  /\ l > region_left /\ stabs[l].n_type # type
  /\ l' = l - 1
  /\ UNCHANGED <<args, region_left, region_right, r, any_matches, addr, pc>>

Return_at_start ==
  /\ pc = "rightmost"
  /\ l > region_left => stabs[l].n_type = type
  /\ region_left' = first
  /\ pc' = "done"
  /\ UNCHANGED <<args, region_right, l, r, any_matches, addr>>

Return ==
  /\ pc = "rightmost"
  /\ l > region_left => stabs[l].n_type = type
  /\ region_left' = l
  /\ pc' = "done"
  /\ UNCHANGED <<args, region_right, l, r, any_matches, addr>>

Next ==
  \/ NoMatch
  \/ \E m \in Indices : GoRight(m) \/ GoLeft(m) \/ ExactMatch(m)
  \/ EndSearch
  \/ Back
  \/ Return

Spec == Init /\ [][Next]_vars

-----------------------------------------------------------------------------
(* Properties.                                                             *)

(* The matching stabs at or below the address.                             *)
Candidates == {k \in Matching : Value(k) <= target}

(* The region of the candidate k: up to the next matching stab.            *)
IsRegionOf(k, right) ==
  /\ k \in Candidates
  /\ \A j \in Candidates : j <= k
  /\ right \in k .. last
  /\ \A j \in k + 1 .. right : j \notin Matching
  /\ right < last => right + 1 \in Matching

(* No matching stab sits one byte after a stab that begins at the address: *)
(* the search goes on for addr + 1 once it has met addr.                   *)
ApartFromTarget ==
  \A j \in Matching :
    Value(j) = target => /\ target < MaxAddr
                         /\ \A k \in Matching : Value(k) # target + 1

(* What the comment of stab_binsearch promises when a stab contains the    *)
(* address, as far as the code keeps it: *region_left is the last matching *)
(* stab at or below the address, *region_right the entry before the next.  *)
FindsRegion ==
  pc = "done" /\ Candidates # {} /\ ApartFromTarget =>
    IsRegionOf(region_left, region_right)

(* Every table entry the loops look at lies in the region asked for.       *)
ProbesInside ==
  /\ pc = "search" /\ l <= r => first <= l /\ r <= last
  /\ pc = "rightmost" /\ l > region_left => l \in first .. last

(* kern/kdebug.c:19-20, "this function finds the single stab entry of type *)
(* 'type' that contains that address", for strictly increasing addresses.  *)
FindsSingleStab ==
  pc = "done" /\ Candidates # {}
    /\ (\A j, k \in Matching : j < k => Value(j) < Value(k))
    /\ target < MaxAddr
      => IsRegionOf(region_left, region_right)
=============================================================================

----------------------------- MODULE DebugInfo ------------------------------
(***************************************************************************)
(* debuginfo_eip() of kern/kdebug.c: three searches of StabSearch one      *)
(* inside the other, for the source file, the function and the line of an  *)
(* instruction address, and two scans for the name of the file and the     *)
(* number of arguments.                                                    *)
(*                                                                         *)
(* A name, and a line number, is the index of the stab it is taken from;   *)
(* 0, the header of the table, stands for what *info is initialised with.  *)
(***************************************************************************)
EXTENDS StabSearch, FiniteSets

CONSTANT ULIM

N_SO    == "SO"
N_SOL   == "SOL"
N_FUN   == "FUN"
N_SLINE == "SLINE"
N_PSYM  == "PSYM"
N_UNDF  == "UNDF"

StabTypes == {N_SO, N_SOL, N_FUN, N_SLINE, N_PSYM, N_UNDF}

ASSUME DebugInfoAssumption == Types = StabTypes /\ ULIM \in Addrs

(* Two stabs of type t with no stab of the types `ends' behind the first,  *)
(* up to the second.                                                       *)
Pairs(table, t, ends) ==
  {p \in Indices \X Indices :
     /\ p[1] < p[2] /\ table[p[1]].n_type = t /\ table[p[2]].n_type = t
     /\ \A k \in p[1] + 1 .. p[2] : table[k].n_type \notin ends}

Ascending(table, t, ends) ==
  \A p \in Pairs(table, t, ends) : table[p[1]].n_value <= table[p[2]].n_value

(* No file, and no function with its frame pointer, is one byte long.      *)
Apart(table, t, ends) ==
  \A p \in Pairs(table, t, ends) :
    table[p[2]].n_value # table[p[1]].n_value + 1

(* The first stab of type t behind stab j, if it comes before `ends'.      *)
IsFirst(table, k, j, t, ends) ==
  /\ j < k /\ table[k].n_type = t
  /\ \A n \in j + 1 .. k - 1 : table[n].n_type \notin ends \cup {t}

(* What gcc, gas and ld make of a program: a header; files in order, in    *)
(* each its functions in order, beginning where the file begins; behind a  *)
(* function its parameters and then its lines in order, counted from it    *)
(* and beginning with it; in a file of assembly code lines by their        *)
(* address, not always from the beginning of the file (kern/entry.S has    *)
(* the multiboot header there).                                            *)
TableInOrder(table) ==
  /\ table[0].n_type = N_UNDF
  /\ Ascending(table, N_SO, {}) /\ Apart(table, N_SO, {})
  /\ Ascending(table, N_FUN, {N_SO}) /\ Apart(table, N_FUN, {N_SO})
  /\ Ascending(table, N_SLINE, {N_SO, N_FUN})
  /\ \A j, k \in Indices :
       /\ table[j].n_type = N_SO =>
            /\ table[j].n_value \in 1 .. MaxAddr - 1
            /\ IsFirst(table, k, j, N_FUN, {N_SO}) =>
                 table[k].n_value <= table[j].n_value
       /\ table[j].n_type = N_FUN =>
            /\ table[j].n_value < MaxAddr
            /\ IsFirst(table, k, j, N_SLINE, {N_SO, N_FUN}) =>
                 table[k].n_value = 0
       /\ table[k].n_type = N_PSYM =>
            /\ \E n \in 0 .. k - 1 :
                 /\ table[n].n_type = N_FUN
                 /\ \A m \in n + 1 .. k : table[m].n_type = N_PSYM
            /\ k < N - 1 /\ table[k + 1].n_type \notin {N_SO, N_FUN}

ASSUME TablesInOrder == \A table \in StabTables : TableInOrder(table)

VARIABLES
  eip,                     \* the argument addr
  stabstr_ok,              \* the string table is not empty and ends in NUL
  named,                   \* the stabs whose n_strx is inside it
  lfile, rfile, lfun, rfun,
  info,
  phase, ret

fixed   == <<eip, stabstr_ok, named>>
regions == <<lfile, rfile, lfun, rfun>>
infovars == <<fixed, regions, info, phase, ret>>
search  == <<region_left, region_right, l, r, any_matches, addr, pc>>
allvars == <<vars, infovars>>

Unknown == [file |-> 0, line |-> 0, fn |-> 0, fn_addr |-> eip, narg |-> 0]

(* Every region debuginfo_eip keeps lies in the table, also when a search  *)
(* finds nothing, and so does every index it dereferences.                 *)
InfoTypeOK ==
  /\ TypeOK
  /\ eip \in Addrs /\ stabstr_ok \in BOOLEAN /\ named \subseteq Indices
  /\ lfile \in Indices /\ rfile \in Indices
  /\ lfun \in Indices /\ rfun \in Indices \cup {lfun - 1}
  /\ info \in [file : Indices, line : Indices, fn : Indices,
               fn_addr : Addrs, narg : 0 .. N]
  /\ phase \in {"entry", "file", "fun", "line", "found", "done"}
  /\ ret \in {"none", "0", "-1", "panic"}

(* The search variables are those of stab_binsearch, which is not running. *)
InfoInit ==
  /\ stabs \in StabTables /\ eip \in Addrs
  /\ stabstr_ok \in BOOLEAN
  /\ named \in {Indices, {}}
  /\ type = N_SO /\ target = 0 /\ first = 0 /\ last = N - 1
  /\ region_left = 0 /\ region_right = 0 /\ l = 0 /\ r = 0
  /\ any_matches = FALSE /\ addr = 0 /\ pc = "done"
  /\ lfile = 0 /\ rfile = 0 /\ lfun = 0 /\ rfun = 0
  /\ info = Unknown
  /\ phase = "entry" /\ ret = "none"

-----------------------------------------------------------------------------
stab_binsearch(left, right, t, a) ==
  /\ type' = t /\ target' = a /\ addr' = a
  /\ first' = left /\ last' = right
  /\ region_left' = left /\ region_right' = right
  /\ l' = left /\ r' = right
  /\ any_matches' = FALSE
  /\ pc' = "search"
  /\ UNCHANGED stabs

Leave(value) == phase' = "done" /\ ret' = value

Returned(step) == phase = step /\ pc = "done"

UserAddress ==
  /\ phase = "entry" /\ eip < ULIM
  /\ Leave("panic")
  /\ UNCHANGED <<vars, fixed, regions, info>>

BadStringTable ==
  /\ phase = "entry" /\ eip >= ULIM /\ ~stabstr_ok
  /\ Leave("-1")
  /\ UNCHANGED <<vars, fixed, regions, info>>

SearchFile ==
  /\ phase = "entry" /\ eip >= ULIM /\ stabstr_ok
  /\ stab_binsearch(0, N - 1, N_SO, eip)
  /\ phase' = "file"
  /\ UNCHANGED <<fixed, regions, info, ret>>

Searching ==
  /\ phase \in {"file", "fun", "line"}
  /\ Next
  /\ UNCHANGED infovars

NoFile ==
  /\ Returned("file") /\ region_left = 0
  /\ Leave("-1")
  /\ UNCHANGED <<vars, fixed, regions, info>>

SearchFun ==
  /\ Returned("file") /\ region_left # 0
  /\ lfile' = region_left /\ rfile' = region_right
  /\ stab_binsearch(region_left, region_right, N_FUN, eip)
  /\ phase' = "fun"
  /\ UNCHANGED <<fixed, lfun, rfun, info, ret>>

(* In an assembly file there is no function, and the addresses of lines    *)
(* are not relative to one.                                                *)
SearchLine_absolute ==
  /\ Returned("fun")
  /\ lfun' = region_left /\ rfun' = region_right
  /\ IF region_left <= region_right
     THEN /\ info' = [info EXCEPT
                 !.fn = IF region_left \in named THEN region_left ELSE 0,
                 !.fn_addr = Value(region_left)]
          /\ stab_binsearch(region_left, region_right, N_SLINE, eip)
     ELSE /\ info' = [info EXCEPT !.fn_addr = eip]
          /\ stab_binsearch(lfile, rfile, N_SLINE, eip)
  /\ phase' = "line"
  /\ UNCHANGED <<fixed, lfile, rfile, ret>>

SearchLine_in_function ==
  /\ Returned("fun")
  /\ lfun' = region_left /\ rfun' = region_right
  /\ IF region_left <= region_right
     THEN /\ info' = [info EXCEPT
                 !.fn = IF region_left \in named THEN region_left ELSE 0,
                 !.fn_addr = Value(region_left)]
          /\ stab_binsearch(region_left, region_right, N_SLINE,
                            eip - Value(region_left))
     ELSE /\ info' = [info EXCEPT !.fn_addr = eip]
          /\ stab_binsearch(region_left, region_right, N_SLINE, eip)
  /\ phase' = "line"
  /\ UNCHANGED <<fixed, lfile, rfile, ret>>

SearchLine ==
  /\ Returned("fun")
  /\ lfun' = region_left /\ rfun' = region_right
  /\ IF region_left <= region_right
     THEN /\ info' = [info EXCEPT
                 !.fn = IF region_left \in named THEN region_left ELSE 0,
                 !.fn_addr = Value(region_left)]
          /\ stab_binsearch(region_left, region_right, N_SLINE,
                            eip - Value(region_left))
     ELSE /\ info' = [info EXCEPT !.fn_addr = eip]
          /\ stab_binsearch(lfile, rfile, N_SLINE, eip)
  /\ phase' = "line"
  /\ UNCHANGED <<fixed, lfile, rfile, ret>>

FoundLine ==
  /\ Returned("line")
  /\ info' = IF region_left <= region_right
             THEN [info EXCEPT !.line = region_left] ELSE info
  /\ phase' = "found"
  /\ UNCHANGED <<vars, fixed, regions, ret>>

(* The scan back from lline: the last stab that names a file.              *)
NamesFile(k) ==
  \/ stabs[k].n_type = N_SOL
  \/ stabs[k].n_type = N_SO /\ Value(k) # 0

Last(S) == CHOOSE k \in S : \A j \in S : j <= k

FileStabs == {k \in lfile .. region_left : NamesFile(k)}

(* The scan forward from lfun: parameters directly behind it, short of the *)
(* last stab of the function.                                              *)
ParamStabs ==
  {k \in lfun + 1 .. rfun - 1 :
     \A j \in lfun + 1 .. k : stabs[j].n_type = N_PSYM}

Finish ==
  /\ phase = "found"
  /\ info' = [info EXCEPT
       !.file = IF FileStabs # {} /\ Last(FileStabs) \in named
                THEN Last(FileStabs) ELSE @,
       !.narg = Cardinality(ParamStabs)]
  /\ Leave("0")
  /\ UNCHANGED <<vars, fixed, regions>>

InfoNext ==
  \/ UserAddress \/ BadStringTable
  \/ SearchFile \/ SearchFun \/ SearchLine
  \/ Searching
  \/ NoFile \/ FoundLine \/ Finish

InfoSpec == InfoInit /\ [][InfoNext]_allvars

(* A plain function call.                                                  *)
InfoFairSpec == InfoSpec /\ WF_allvars(InfoNext)

-----------------------------------------------------------------------------
(* Properties.                                                             *)

(* Every call of stab_binsearch keeps the function's condition: the region *)
(* is not empty, lies in the table, and its stabs of the type increase;    *)
(* and no entry outside that region is looked at.                          *)
CallsInOrder ==
  /\ InfoTypeOK
  /\ pc = "search" => 0 <= first /\ first <= last /\ last < N /\ Sorted
  /\ ProbesInside

(* The stabs of one type in a range, at or below an address.               *)
AtOrBelow(t, lo, hi, a) ==
  {k \in lo .. hi : stabs[k].n_type = t /\ Value(k) <= a}

(* The last entry before the next stab of the type.                        *)
EndOf(t, k, hi) ==
  Last({j \in k .. hi : \A i \in k + 1 .. j : stabs[i].n_type # t})

TheFile    == Last(AtOrBelow(N_SO, 0, N - 1, eip))
FileEnd    == EndOf(N_SO, TheFile, N - 1)
TheFuns    == AtOrBelow(N_FUN, TheFile, FileEnd, eip)
TheFun     == Last(TheFuns)
TheLines   ==
  IF TheFuns = {} THEN AtOrBelow(N_SLINE, TheFile, FileEnd, eip)
  ELSE AtOrBelow(N_SLINE, TheFun, EndOf(N_FUN, TheFun, FileEnd),
                 eip - Value(TheFun))

(* Only an address below every file, or before every line, is refused;     *)
(* every other one is answered with the function, the line and the file an *)
(* ordered reading of the table gives, whatever the three binary searches  *)
(* skip; the line unless there is one exactly at the address and another   *)
(* one byte further on; what is counted are the parameters of that         *)
(* function, and all of them.  An answer for an address before every line  *)
(* names line 0, of the header or of the file's stab; whether there should *)
(* be one is the matter of MissingLineFails.                               *)
AnswersRight ==
  /\ ret = "-1" =>
       \/ ~stabstr_ok \/ AtOrBelow(N_SO, 0, N - 1, eip) = {}
       \/ TheLines = {}
  /\ ret = "0" /\ named = Indices =>
       /\ IF TheFuns = {} THEN info.fn = 0 /\ info.fn_addr = eip
          ELSE info.fn = TheFun /\ info.fn_addr = Value(TheFun)
       /\ IF TheLines = {} THEN info.line \in {0, TheFile}
          ELSE ApartFromTarget =>
               /\ info.line = Last(TheLines)
               /\ info.file =
                    Last({k \in TheFile .. info.line : NamesFile(k)})
       /\ info.narg =
            IF TheFuns = {} THEN 0
            ELSE Cardinality({k \in TheFun .. EndOf(N_FUN, TheFun, FileEnd) :
                                stabs[k].n_type = N_PSYM})


(* The three searches come to an end.                                      *)
Returns == <>(phase = "done")
=============================================================================

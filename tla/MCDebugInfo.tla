----------------------------- MODULE MCDebugInfo ----------------------------
(* The table of a kernel of an assembly file and a C file: lines with and  *)
(* without a function, two of them one byte apart, none to two parameters, *)
(* a line from an included file, and the N_SO that ends a file.            *)
EXTENDS DebugInfo, Sequences

E(t, v) == [n_type |-> t, n_value |-> v]

S0 == E(N_SLINE, 0)
P  == E(N_PSYM, 8)

MCTable(q, p, sol) ==
  LET entries ==
        <<E(N_SO, 3), E(N_SLINE, 4), E(N_SLINE, 5),
          E(N_SO, 8), E(N_FUN, 8), q, S0, sol, E(N_SLINE, 2),
          E(N_FUN, 12)>> \o p \o <<S0, E(N_SO, 14)>>
  IN [k \in Indices |-> IF k = 0 THEN E(N_UNDF, 0) ELSE entries[k]]

MCTables ==
  {MCTable(q, p, sol) :
     q \in {P, S0}, p \in {<<P, P>>, <<P, S0>>, <<S0, S0>>},
     sol \in {E(N_SOL, 10), E(N_SLINE, 2)}}
=============================================================================

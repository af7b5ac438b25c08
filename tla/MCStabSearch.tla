---------------------------- MODULE MCStabSearch ----------------------------
(* StabSearch on tables of a few entries of two types.                      *)
EXTENDS StabSearch

(* An entry of another type has a value nobody looks at.                    *)
MCTypes  == {"FUN", "other"}
MCStabs  == [n_type : {"FUN"}, n_value : Addrs] \cup
            {[n_type |-> "other", n_value |-> 0]}
MCTables == [Indices -> MCStabs]
=============================================================================

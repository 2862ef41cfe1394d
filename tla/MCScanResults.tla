---------------------------- MODULE MCScanResults ----------------------------
(***************************************************************************)
(* Instances of ScanResults: the networks are numbered, and a network with *)
(* a higher number is the stronger one.                                    *)
(***************************************************************************)
EXTENDS ScanResults, TLC

Symmetry == Permutations(Addr)
MCLevel == [n \in Net |-> n]

\* The exchange sort of sort_scan_result, on all lists of up to four results:
\* the same results, the strongest first.
ASSUME SortSorts ==
    \A n \in 0..4 : \A f \in [1..n -> Net] :
        LET s == [i \in 1..n |-> [net |-> f[i], on |-> TRUE]]
            t == Sort(s)
        IN  /\ Len(t) = n
            /\ \A m \in Net : Cardinality({i \in 1..n : t[i].net = m})
                             = Cardinality({i \in 1..n : s[i].net = m})
            /\ \A i, j \in 1..n : i < j => Level[t[i].net] >= Level[t[j].net]
=============================================================================

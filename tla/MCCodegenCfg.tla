---------------------------- MODULE MCCodegenCfg ----------------------------
(***************************************************************************)
(* Every program of Size statements over UsedKinds, nested in every way;   *)
(* statements of the kinds in Unvalued may also lack a value, and a value  *)
(* used at one point inside a function may be one the back end has not.    *)
(***************************************************************************)
EXTENDS CodegenCfg, SequencesExt

CONSTANTS Size, UsedKinds, Unvalued

\* The statements in the order a reader meets them.
Nth == <<"s1", "s2", "s3", "s4">>
MCNode == {Nth[i] : i \in 1..Size}

PartCount(k) ==
    CASE k \in {"act", "return"} -> 0
      [] k \in {"ifElse", "match", "matchElse"} -> 2
      [] OTHER -> 1

\* What codegen drops unseen is left empty.
Unseen(k, v) == k = "loop" \/ (~v /\ k \notin {"while", "for"})

RECURSIVE Lists(_, _), Parts(_, _, _)

\* Statement lo with lo + 1..hi inside it: the rows of the table.
Rows(lo, hi) ==
    UNION {
        {Nth[lo] :> [kind |-> kv[1], parts |-> p.parts, valued |-> kv[2]] @@ p.rows :
            p \in Parts(lo + 1, hi, PartCount(kv[1]))} :
        kv \in {x \in UsedKinds \X BOOLEAN :
                  /\ x[2] \/ x[1] \in Unvalued
                  /\ Unseen(x[1], x[2]) => lo = hi}}

\* The statements lo..hi as n lists.
Parts(lo, hi, n) ==
    IF n = 0 THEN IF lo > hi THEN {[parts |-> <<>>, rows |-> <<>>]} ELSE {}
    ELSE UNION {{[parts |-> <<l.list>> \o p.parts, rows |-> l.rows @@ p.rows] :
                    l \in Lists(lo, mid), p \in Parts(mid + 1, hi, n - 1)} :
                mid \in (lo - 1)..hi}

\* The statements lo..hi as one list.
Lists(lo, hi) ==
    IF lo > hi THEN {[list |-> <<>>, rows |-> <<>>]}
    ELSE UNION {{[list |-> <<Nth[lo]>> \o l.list, rows |-> r @@ l.rows] :
                    r \in Rows(lo, mid), l \in Lists(mid + 1, hi)} :
                mid \in lo..hi}

Whole(l) ==
    [kind |-> [n \in Node |-> l.rows[n].kind], parts |-> [n \in Node |-> l.rows[n].parts],
     valued |-> [n \in Node |-> l.rows[n].valued], top |-> l.list,
     lost |-> [n \in Node |-> {}], fatal |-> [n \in Node |-> {}]]

RECURSIVE InFunctions(_, _, _)

\* The statements of a list, and in them, that stand in a function.
InFunctions(p, list, in) ==
    UNION {(IF in THEN {n} ELSE {}) \union
           InFunctions(p, FlattenSeq(p.parts[n]), in \/ p.kind[n] = "func") : n \in ToSet(list)}

Lossy(p) ==
    UNION {{[p EXCEPT !.lost[n] = {i}] : i \in UsesOf(p, n)} \union
           {[p EXCEPT !.fatal[n] = {i}] : i \in UsesOf(p, n)} :
               n \in InFunctions(p, p.top, FALSE)}

MCPrograms ==
    LET whole == {Whole(l) : l \in Lists(1, Size)}
    IN whole \union UNION {Lossy(p) : p \in {q \in whole : \E n \in Node : q.kind[n] = "func"}}
=============================================================================

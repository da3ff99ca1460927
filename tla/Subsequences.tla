---------------------------- MODULE Subsequences ----------------------------
(***************************************************************************)
(* What Vec::retain, a filter of an iterator or epoll_wait leave of a      *)
(* list: the elements that are in a set, in their order.  SelectSeq says   *)
(* the same, but takes an operator, which no theorem can be about.         *)
(***************************************************************************)
EXTENDS Naturals, SequencesExt

Filter(s, S) ==
    LET f[n \in 0..Len(s)] ==
            IF n = 0 THEN <<>>
            ELSE IF s[n] \in S THEN Append(f[n - 1], s[n])
            ELSE f[n - 1]
    IN  f[Len(s)]
=============================================================================

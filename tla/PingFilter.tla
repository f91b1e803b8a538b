----------------------------- MODULE PingFilter -----------------------------
(***************************************************************************)
(* What a caller of tcpPingBatch (src/validator.go) relies on, with the    *)
(* worker pool left out: every line of the batch gets one verdict, the     *)
(* verdict never changes, and the call returns the lines that were judged  *)
(* reachable, in the order they were given, with the number of the others. *)
(***************************************************************************)
EXTENDS Selection

CONSTANT NumLines          \* len(lines)

Lines == 0 .. NumLines - 1

VARIABLES verdict,         \* verdict[i]: "unset" until line i has been judged
          passed,          \* the slice returned: indices of reachable lines
          failed,          \* the count returned
          returned         \* the call has returned

vars == <<verdict, passed, failed, returned>>

InOrder == [k \in 1 .. NumLines |-> k - 1]
UpIn(v) == {i \in Lines : v[i] = "up"}
Reachable(v) == Select(InOrder, UpIn(v))

Init == /\ verdict = [i \in Lines |-> "unset"]
        /\ passed = << >>
        /\ failed = 0
        /\ returned = FALSE

Judge(i) == /\ verdict[i] = "unset"
            /\ \E v \in {"up", "down"} : verdict' = [verdict EXCEPT ![i] = v]
            /\ UNCHANGED <<passed, failed, returned>>

Return == /\ ~returned
          /\ \A i \in Lines : verdict[i] # "unset"
          /\ passed' = Reachable(verdict)
          /\ failed' = NumLines - Len(Reachable(verdict))
          /\ returned' = TRUE
          /\ UNCHANGED verdict

Next == Return \/ \E i \in Lines : Judge(i)

Spec == Init /\ [][Next]_vars /\ WF_vars(Next)
=============================================================================

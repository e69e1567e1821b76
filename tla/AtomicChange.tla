---------------------------- MODULE AtomicChange ----------------------------
(***************************************************************************)
(* What an installer operation promises about the destinations it changes, *)
(* whatever the order it writes them in: it ends with every one of them    *)
(* changed, or with none of them changed, or it says that it could not     *)
(* restore them.  A process that is killed says nothing.                   *)
(***************************************************************************)
CONSTANT Destinations

VARIABLES items,      \* the destinations this operation changes
          applied,    \* those that currently do not show their old content
          verdict     \* what the caller has been told

vars == <<items, applied, verdict>>

Verdicts == {"open", "committed", "aborted", "incomplete", "killed"}

TypeOK == /\ items \subseteq Destinations
          /\ applied \subseteq items
          /\ verdict \in Verdicts

Init == items \subseteq Destinations /\ applied = {} /\ verdict = "open"

Apply(i) == /\ verdict = "open" /\ i \in items
            /\ applied' = applied \union {i}
            /\ UNCHANGED <<items, verdict>>

Undo(i) == /\ verdict = "open" /\ i \in items
           /\ applied' = applied \ {i}
           /\ UNCHANGED <<items, verdict>>

Conclude(v) == /\ verdict = "open"
               /\ v = "committed" => applied = items
               /\ v = "aborted" => applied = {}
               /\ verdict' = v
               /\ UNCHANGED <<items, applied>>

Next == \/ \E i \in Destinations : Apply(i) \/ Undo(i)
        \/ \E v \in Verdicts \ {"open"} : Conclude(v)

(* It ends, rather than undoing and applying for ever.                     *)
Ends == <>(verdict # "open")

Spec == Init /\ [][Next]_vars /\ Ends
=============================================================================

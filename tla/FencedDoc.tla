----------------------------- MODULE FencedDoc -----------------------------
(***************************************************************************)
(* What the owners of an entity make of its document, whoever they are and  *)
(* however late their requests arrive: it is created once, its fence never  *)
(* goes back, and every write builds on everything written before.          *)
(* EntityStore implements this specification.                                *)
(***************************************************************************)
EXTENDS Naturals

CONSTANTS Fences, Mutations

VARIABLE doc

Init == \E e \in BOOLEAN : doc = [exists |-> e, version |-> 0, fence |-> 0, content |-> {}]

Create(f) ==
    /\ ~doc.exists
    /\ doc' = [exists |-> TRUE, version |-> 0, fence |-> f, content |-> {}]

Claim(f) ==
    /\ doc.exists /\ doc.fence <= f
    /\ doc' = [doc EXCEPT !.fence = f]

Write(more) ==
    /\ doc.exists /\ doc.fence \in Fences
    /\ doc' = [doc EXCEPT !.version = @ + 1, !.content = @ \cup more]

Next == \/ \E f \in Fences : Create(f) \/ Claim(f)
        \/ \E more \in SUBSET Mutations : Write(more)

Spec == Init /\ [][Next]_doc
=============================================================================

--------------------------- MODULE AbstractFlags ---------------------------
(***************************************************************************)
(* What a collection of flag documents (Likes/<project>, Saved/<user>)     *)
(* promises.  A flag is raised or cleared on its own, and the other flags  *)
(* of the document stay.  While the first flags of a document are being    *)
(* written it is young: there, and only there, a first writer may replace  *)
(* the flags of another.  A document never becomes young again.            *)
(***************************************************************************)

CONSTANTS Docs, Fields

VARIABLES flags,    \* the flags recorded in each document
          young     \* the documents whose flags may still be replaced

absVars == <<flags, young>>

Init == /\ flags \in [Docs -> SUBSET Fields]
        /\ young \in SUBSET Docs

Raise(d, f) == flags' = [flags EXCEPT ![d] = @ \cup {f}]

Clear(d, f) == flags' = [flags EXCEPT ![d] = @ \ {f}]

Replace(d, f) == /\ d \in young
                 /\ flags' = [flags EXCEPT ![d] = {f}]

Next == /\ young' \subseteq young
        /\ \/ \E d \in Docs, f \in Fields : Raise(d, f) \/ Clear(d, f) \/ Replace(d, f)
           \/ UNCHANGED flags

Spec == Init /\ [][Next]_absVars
=============================================================================

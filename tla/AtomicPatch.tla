----------------------------- MODULE AtomicPatch -----------------------------
(***************************************************************************)
(* What patch application promises (patch/applier.py: "transactionally";   *)
(* docs/public-contracts.md, Checkpoint Integrity): the contents of the    *)
(* targets are saved, then either every block of the patch takes effect in *)
(* one step or none does, and a saved set of contents can be brought back  *)
(* whole.  There is no half-applied state to be seen.                      *)
(***************************************************************************)
EXTENDS PatchText

CONSTANT Proposals      \* the patches that may be applied

VARIABLES
    view,       \* the project's files
    saved       \* saved contents by number, each a function on some files

\* The number is later than any before, and some may have been passed over.
Save ==
    \E bs \in Proposals, c \in DOMAIN saved' \ DOMAIN saved :
        /\ \A d \in DOMAIN saved : d < c
        /\ saved' = [d \in DOMAIN saved \cup {c} |->
                        IF d = c THEN [f \in Targets(bs) |-> view[f]] ELSE saved[d]]
        /\ UNCHANGED view

\* The files are still those saved last, and all of them change together.
Apply ==
    /\ \E bs \in Proposals, c \in DOMAIN saved :
        /\ \A d \in DOMAIN saved : d <= c
        /\ Targets(bs) = DOMAIN saved[c]
        /\ \A f \in Targets(bs) : view[f] = saved[c][f]
        /\ view' = [f \in Files |-> IF f \in Targets(bs) THEN Result(bs, f, view[f]) ELSE view[f]]
    /\ UNCHANGED saved

BringBack ==
    /\ \E c \in DOMAIN saved :
        view' = [f \in Files |-> IF f \in DOMAIN saved[c] THEN saved[c][f] ELSE view[f]]
    /\ UNCHANGED saved

Start == view \in [Files -> MaybeContent] /\ DOMAIN saved = {}

Spec == Start /\ [][Save \/ Apply \/ BringBack]_<<view, saved>>
=============================================================================

----------------------------- MODULE HeaderFields -----------------------------
(***************************************************************************)
(* What the setters of the page_type and flags bytes promise: a kind and a *)
(* subtype that do not know of each other, and a set of page states.  Each *)
(* operation is a call, and says what that call does for its arguments.    *)
(***************************************************************************)
EXTENDS Integers

CONSTANTS Args,       \* bytes a caller passes for a kind or a subtype
          States      \* the page states, "NoState" among them

VARIABLES kind, subtype, states

(* Of an argument only the low four bits are kept.                         *)
Kept(arg) == arg % 16

(* "NoState" is the absence of every state.                                *)
Named(pf) == {pf} \ {"NoState"}

HFInit == kind = 0 /\ subtype = 0 /\ states = {}

HFNewType(pt, pst) == kind' = Kept(pt) /\ subtype' = Kept(pst) /\ UNCHANGED states
HFSetKind(pt)      == kind' = Kept(pt) /\ UNCHANGED <<subtype, states>>
HFSetSubtype(pst)  == subtype' = Kept(pst) /\ UNCHANGED <<kind, states>>
HFNewFlags(pf)     == states' = Named(pf) /\ UNCHANGED <<kind, subtype>>
HFRaise(pf)        == states' = states \cup Named(pf) /\ UNCHANGED <<kind, subtype>>
HFClear(pf)        == states' = states \ Named(pf) /\ UNCHANGED <<kind, subtype>>

HFNext ==
  \/ \E pt, pst \in Args : HFNewType(pt, pst)
  \/ \E pt \in Args : HFSetKind(pt)
  \/ \E pst \in Args : HFSetSubtype(pst)
  \/ \E pf \in States : HFNewFlags(pf) \/ HFRaise(pf) \/ HFClear(pf)

HFSpec == HFInit /\ [][HFNext]_<<kind, subtype, states>>
=============================================================================

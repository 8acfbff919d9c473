--------------------------- MODULE PageHeaderBits ---------------------------
(***************************************************************************)
(* A PageType and a PageFlags value (src/page/mod.rs) under any calls of   *)
(* their setters.                                                          *)
(***************************************************************************)
EXTENDS Integers, PageType

CONSTANTS Args        \* bytes a caller passes for a kind or a subtype

ASSUME ArgsAssumption == Args \subseteq 0 .. 255

VARIABLES page_type,  \* PageType.0
          flags       \* PageFlags.0

vars == <<page_type, flags>>

Init == page_type = NewPageType(0, 0) /\ flags = Bit["NoState"]

NewType(pt, pst) == page_type' = NewPageType(pt, pst) /\ UNCHANGED flags

SetKind(pt) == page_type' = WithPageType(page_type, pt) /\ UNCHANGED flags

SetSubtype(pst) == page_type' = WithSubType(page_type, pst) /\ UNCHANGED flags

NewFlags(pf) == flags' = Bit[pf] /\ UNCHANGED page_type

Raise(pf) == flags' = SetFlag(flags, pf) /\ UNCHANGED page_type

Clear(pf) == flags' = ClearFlag(flags, pf) /\ UNCHANGED page_type

Next ==
  \/ \E pt, pst \in Args : NewType(pt, pst)
  \/ \E pt \in Args : SetKind(pt)
  \/ \E pst \in Args : SetSubtype(pst)
  \/ \E pf \in PageStates : NewFlags(pf) \/ Raise(pf) \/ Clear(pf)

Spec == Init /\ [][Next]_vars

-----------------------------------------------------------------------------
(* Properties.                                                             *)

StatesIn(byte) == {pf \in PageStates : HasFlag(byte, pf)}

Fields == INSTANCE HeaderFields WITH
  kind <- page_type % 16, subtype <- SubTypeOf(page_type),
  states <- StatesIn(flags), States <- PageStates

(* A call of a setter is the HeaderFields call of the same name and the    *)
(* same arguments.                                                         *)
CallsMatch ==
  /\ \A pt, pst \in Args : NewType(pt, pst) => Fields!HFNewType(pt, pst)
  /\ \A pt \in Args : SetKind(pt) => Fields!HFSetKind(pt)
  /\ \A pst \in Args : SetSubtype(pst) => Fields!HFSetSubtype(pst)
  /\ \A pf \in PageStates : /\ NewFlags(pf) => Fields!HFNewFlags(pf)
                            /\ Raise(pf) => Fields!HFRaise(pf)
                            /\ Clear(pf) => Fields!HFClear(pf)

(* After any calls of the setters, in any order and with any byte as       *)
(* argument, each call sets what it is about to its own argument: a kind   *)
(* never leaks into the subtype nor a subtype into the kind, however wide  *)
(* the byte that was passed, and a flag is set exactly when the last call  *)
(* about it set it, whatever happened to the other flags (mod.rs:149-184,  *)
(* 248-263).                                                               *)
ImplementsHeaderFields == Fields!HFSpec /\ [][CallsMatch]_vars

(* mod.rs:201: "flags must be able to represent multiple states": what     *)
(* extract_all_flags lists is what has_flag answers for each state.        *)
ExtractsWhatIsSet == ExtractAllFlags(flags) = StatesIn(flags)
=============================================================================

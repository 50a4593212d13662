----------------------------- MODULE MCOtpHook -----------------------------
(***************************************************************************)
(* Two codes for one phone, which gets two at once and one more every two  *)
(* minutes.                                                                *)
(***************************************************************************)
EXTENDS OtpHook, TLC

OnePhone == [c \in Delivery |-> "phone"]

\* Handlers differ in nothing but what they serve, nor do the codes.
Alike == Permutations(Handler) \cup Permutations(Delivery)

=============================================================================

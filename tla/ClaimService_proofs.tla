------------------------ MODULE ClaimService_proofs ------------------------
(***************************************************************************)
(* What the claim service promises, and so every mode of the driver that   *)
(* implements it.                                                          *)
(***************************************************************************)
EXTENDS ClaimService, TLAPS

\* The promise is inductive as it stands.
Promise == TypeOK /\ Exclusive /\ Served

\* Every step keeps the promise: only Finish makes a claim prepared, only Assign
\* changes what a claim has for itself, and both look at the other claims.
LEMMA PromiseStep == Promise /\ [Next]_vars => Promise'
<1> SUFFICES ASSUME Promise, [Next]_vars PROVE Promise'
  OBVIOUS
<1> USE DEF Promise, TypeOK, Exclusive, Served, Prepared
<1>1. CASE Reboot
  BY <1>1 DEF Reboot
<1>2. ASSUME NEW c \in Claims, Assign(c) PROVE Promise'
  BY <1>2 DEF Assign
<1>3. ASSUME NEW c \in Claims, Begin(c) PROVE Promise'
  BY <1>3 DEF Begin
<1>4. ASSUME NEW c \in Claims, Finish(c) PROVE Promise'
  BY <1>4 DEF Finish
<1>5. ASSUME NEW c \in Claims, Use(c) PROVE Promise'
  BY <1>5 DEF Use
<1>6. ASSUME NEW c \in Claims, Stop(c) PROVE Promise'
  BY <1>6 DEF Stop
<1>7. ASSUME NEW c \in Claims, Withdraw(c) PROVE Promise'
  BY <1>7 DEF Withdraw
<1>8. ASSUME NEW c \in Claims, Announce(c) PROVE Promise'
  BY <1>8 DEF Announce
<1>9. ASSUME NEW c \in Claims, Retire(c) PROVE Promise'
  BY <1>9 DEF Retire
<1>10. CASE UNCHANGED vars
  BY <1>10 DEF vars
<1> QED
  BY <1>1, <1>2, <1>3, <1>4, <1>5, <1>6, <1>7, <1>8, <1>9, <1>10 DEF Next

(***************************************************************************)
(* Containers of a known claim run only while it is prepared, and no two   *)
(* prepared claims were given the same device for themselves: what the     *)
(* kubelet may rely on in every mode.                                      *)
(***************************************************************************)
THEOREM ServiceKeepsPromise == Spec => [](Exclusive /\ Served)
<1>1. Init => Promise
  BY DEF Init, Promise, TypeOK, Exclusive, Served, Prepared
<1>2. Promise => Exclusive /\ Served
  BY DEF Promise
<1> QED
  BY <1>1, <1>2, PromiseStep, PTL DEF Spec
=============================================================================

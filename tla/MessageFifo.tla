---------------------------- MODULE MessageFifo -----------------------------
(***************************************************************************)
(* What kernel/message.c promises: a bounded FIFO whose destroy is not     *)
(* atomic. It is refused while messages are stored; once it has begun,     *)
(* other calls still come in before the memory is gone, and a message they *)
(* store goes with it.                                                     *)
(***************************************************************************)
EXTENDS BoundedFifo

VARIABLE closing    \* a destroy has begun
mvars == <<fvars, closing>>

MInit == FInit /\ closing = FALSE

Call == (Put \/ Take \/ Peek \/ Count) /\ UNCHANGED closing
Refuse == items # <<>> /\ ret' = <<"busy">> /\ UNCHANGED <<items, freed, closing>>
Begin ==
  /\ items = <<>> /\ ~closing
  /\ closing' = TRUE
  /\ UNCHANGED fvars
Free ==
  /\ closing
  /\ freed' = TRUE /\ ret' = <<"freed">> /\ closing' = FALSE
  /\ UNCHANGED items

MNext == ~freed /\ (Call \/ Refuse \/ Begin \/ Free)
MSpec == MInit /\ [][MNext]_mvars
=============================================================================

---------------------------- MODULE BoundedFifo -----------------------------
(***************************************************************************)
(* What lib/queue.c promises its callers: a first-in first-out queue of    *)
(* Capacity elements, whose calls answer what the caller sees in ret.      *)
(***************************************************************************)
EXTENDS Naturals, Sequences

CONSTANTS Data, Capacity, NULL
VARIABLES items, ret, freed

fvars == <<items, ret, freed>>

FInit == items = <<>> /\ ret = <<"created">> /\ freed = FALSE

Put == \E d \in Data :
  /\ IF Len(items) < Capacity
     THEN items' = Append(items, d) /\ ret' = <<"stored">>
     ELSE ret' = <<"refused">> /\ UNCHANGED items
  /\ UNCHANGED freed
Take ==
  /\ IF items # <<>>
     THEN items' = Tail(items) /\ ret' = <<"item", Head(items)>>
     ELSE ret' = <<"item", NULL>> /\ UNCHANGED items
  /\ UNCHANGED freed
Peek ==
  /\ ret' = <<"item", IF items # <<>> THEN Head(items) ELSE NULL>>
  /\ UNCHANGED <<items, freed>>
Count == ret' = <<"count", Len(items)>> /\ UNCHANGED <<items, freed>>
Destroy ==
  /\ IF items = <<>> THEN ret' = <<"freed">> ELSE ret' = <<"busy">>
  /\ freed' = (items = <<>>)
  /\ UNCHANGED items

FNext == ~freed /\ (Put \/ Take \/ Peek \/ Count \/ Destroy)
FSpec == FInit /\ [][FNext]_fvars
=============================================================================

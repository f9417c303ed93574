---------------------------- MODULE BoundedFifo ----------------------------
(***************************************************************************)
(* What the receive queue of net_client.c promises its two users: a first  *)
(* in, first out channel of at most Capacity items in which a refused put  *)
(* changes nothing, a take on an empty channel returns NULL, and the       *)
(* length announced for the next item is the length of the next item.      *)
(***************************************************************************)
EXTENDS Integers, Sequences

CONSTANTS Capacity, Item, ItemLen, NULL

VARIABLES
    items,      \* the channel
    accepted,   \* result of the last put
    taken,      \* result of the last take
    announced   \* result of the last length query

fifoVars == <<items, accepted, taken, announced>>

FifoInit == items = <<>> /\ accepted = FALSE /\ taken = NULL /\ announced = 0

Put(p) ==
    /\ accepted' = (Len(items) < Capacity)
    /\ items' = IF Len(items) < Capacity THEN Append(items, p) ELSE items
    /\ UNCHANGED <<taken, announced>>

Take ==
    /\ taken' = IF items = <<>> THEN NULL ELSE Head(items)
    /\ items' = IF items = <<>> THEN items ELSE Tail(items)
    /\ UNCHANGED <<accepted, announced>>

Announce ==
    /\ announced' = IF items = <<>> THEN 0 ELSE ItemLen[Head(items)]
    /\ UNCHANGED <<items, accepted, taken>>

FifoNext == (\E p \in Item : Put(p)) \/ Take \/ Announce

FifoSpec == FifoInit /\ [][FifoNext]_fifoVars
=============================================================================

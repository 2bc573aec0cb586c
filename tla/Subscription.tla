---------------------------- MODULE Subscription ----------------------------
(***************************************************************************)
(* What the customer service is promised about one customer: its commands  *)
(* take effect at most once and in the order of their numbers, in whatever *)
(* order and however often they arrive; a block and a deletion hold until  *)
(* a later command lifts them; the paid time never shrinks; and access is  *)
(* granted only while the subscription is active.                          *)
(***************************************************************************)
EXTENDS Naturals

CONSTANTS Command, NoCommand

VARIABLES
    life,      \* ACTIVE, BLOCKED, DELETING or DELETED
    until,     \* the end of the paid time; 0 when DELETED
    quota,     \* bytes for each node; 0 when DELETED
    last,      \* number of the last command that took effect
    stamp,     \* that command
    granted    \* some access of the customer is PRESENT

vars == <<life, until, quota, last, stamp, granted>>

Init ==
    /\ life = "DELETED"
    /\ until = 0
    /\ quota = 0
    /\ last = 0
    /\ stamp = NoCommand
    /\ granted = FALSE

\* A command takes effect once: its number is above every earlier one.
Accept(cmd) ==
    /\ cmd.number > last
    /\ last' = cmd.number
    /\ stamp' = cmd

Subscribe(cmd) ==
    /\ cmd.kind = "apply"
    /\ life # "DELETING"
    /\ life' = IF life = "DELETED" THEN "ACTIVE" ELSE life
    /\ cmd.until >= until
    /\ until' = cmd.until
    /\ quota' = cmd.quota

Block(cmd) ==
    /\ cmd.kind = "block"
    /\ life \in {"ACTIVE", "BLOCKED"}
    /\ life' = "BLOCKED"
    /\ UNCHANGED <<until, quota>>

Unblock(cmd) ==
    /\ cmd.kind = "unblock"
    /\ life \in {"ACTIVE", "BLOCKED"}
    /\ life' = "ACTIVE"
    /\ UNCHANGED <<until, quota>>

Delete(cmd) ==
    /\ cmd.kind = "delete"
    /\ life' = IF life = "DELETED" THEN "DELETED" ELSE "DELETING"
    /\ UNCHANGED <<until, quota>>

Grant == granted' \in {g \in BOOLEAN : g => life' = "ACTIVE"}

Obey(cmd) ==
    /\ Accept(cmd)
    /\ Subscribe(cmd) \/ Block(cmd) \/ Unblock(cmd) \/ Delete(cmd)
    /\ Grant

\* Expiry, quota and topology change what is granted, and nothing else.
Regrant ==
    /\ Grant
    /\ UNCHANGED <<life, until, quota, last, stamp>>

\* The end of a deletion keeps the number and the command.
Vanish ==
    /\ life = "DELETING"
    /\ ~granted
    /\ life' = "DELETED"
    /\ until' = 0
    /\ quota' = 0
    /\ UNCHANGED <<last, stamp, granted>>

Next == (\E cmd \in Command : Obey(cmd)) \/ Regrant \/ Vanish

Spec == Init /\ [][Next]_vars

=============================================================================

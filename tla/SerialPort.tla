----------------------------- MODULE SerialPort -----------------------------
(***************************************************************************)
(* What the guest program may expect of its terminal.  One place holds a   *)
(* received character until somebody reads it, and one place holds the     *)
(* character the program has printed until it is on the screen: it is      *)
(* never replaced while it waits there, and the screen shows what was      *)
(* printed once and in order.  Other characters can appear on the screen   *)
(* in between (they are poked from the monitor).                           *)
(***************************************************************************)
EXTENDS Sequences

CONSTANTS
  Received,  \* the characters that can be received
  Printed,   \* the characters the program prints
  Foreign,   \* the characters others put on the screen
  Shows(_)   \* what one character puts on the screen

VARIABLES inbox, outbox, screen

Init == inbox = <<>> /\ outbox = <<>> /\ screen = <<>>

(* Somebody reads the received character. *)
Take == inbox' = <<>>

(* The program prints, possibly reading in the same step. *)
Emit ==
  /\ outbox = <<>>
  /\ \E cc \in Printed : outbox' = <<cc>>
  /\ UNCHANGED inbox \/ Take
  /\ UNCHANGED screen

Read == Take /\ UNCHANGED <<outbox, screen>>

(* A poll receives a character if there is room for it, and shows what was *)
(* printed, or a foreign character if nothing was.                         *)
Receive == inbox = <<>> /\ \E cc \in Received : inbox' = <<cc>>

Show ==
  \/ /\ outbox # <<>>
     /\ screen' = screen \o Shows(outbox[1])
     /\ outbox' = <<>>
  \/ /\ outbox = <<>>
     /\ \E cc \in Foreign : screen' = screen \o Shows(cc)
     /\ UNCHANGED outbox

Poll == /\ Receive \/ UNCHANGED inbox
        /\ Show \/ (outbox = <<>> /\ UNCHANGED <<outbox, screen>>)

Next == Emit \/ Read \/ Poll

Spec == Init /\ [][Next]_<<inbox, outbox, screen>>
=============================================================================

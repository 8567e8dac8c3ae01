----------------------------- MODULE WordStore -----------------------------
(***************************************************************************)
(* What the terminal's firmware is promised by its configuration memory: a *)
(* store of words, read and written one at a time, that survives a restart *)
(* as it was last saved.  A write goes through an erased word, so a power  *)
(* cut leaves the one word that was being written old, erased or new.      *)
(***************************************************************************)
CONSTANTS Addr, Word, Ones

VARIABLES
  cells,     \* the words
  enabled,   \* writing is enabled
  op,        \* the operation in progress
  got,       \* the result of the last read
  disk       \* the saved image; empty if there is none or it is cut short

svars == <<cells, enabled, op, got, disk>>

Idle  == [kind |-> "idle"]
Ops   == [kind: {"read", "erase"}, a: Addr] \cup [kind: {"write"}, a: Addr, w: Word]
           \cup [kind: {"enable", "disable", "size"}]
Image == [Addr -> Word]
Blank == [a \in Addr |-> Ones]
None  == <<>>

Boot(image) ==
  /\ cells' = IF image = None THEN Blank ELSE image
  /\ enabled' = TRUE
  /\ op' = Idle

StoreInit ==
  /\ disk \in Image \cup {None}
  /\ cells = IF disk = None THEN Blank ELSE disk
  /\ enabled = TRUE
  /\ op = Idle
  /\ got = Ones

Begin(o) ==
  /\ op = Idle
  /\ op' = o
  /\ UNCHANGED <<cells, enabled, got, disk>>

(* The effects of an operation on the way. *)
Erase ==
  /\ enabled
  /\ op.kind \in {"erase", "write"}
  /\ cells' = [cells EXCEPT ![op.a] = Ones]
  /\ UNCHANGED <<enabled, op, got, disk>>

Program ==
  /\ enabled
  /\ op.kind = "write"
  /\ cells' = [cells EXCEPT ![op.a] = op.w]
  /\ UNCHANGED <<enabled, op, got, disk>>

Enable ==
  /\ op.kind \in {"enable", "disable"}
  /\ enabled' = (op.kind = "enable")
  /\ UNCHANGED <<cells, op, got, disk>>

(* An operation ends when what it promises holds. *)
End ==
  /\ op # Idle
  /\ got' = IF op.kind = "read" THEN cells[op.a] ELSE got
  /\ enabled /\ op.kind = "write" => cells[op.a] = op.w
  /\ enabled /\ op.kind = "erase" => cells[op.a] = Ones
  /\ op.kind \in {"enable", "disable"} => enabled = (op.kind = "enable")
  /\ op' = Idle
  /\ UNCHANGED <<cells, enabled, disk>>

(* The power goes, after the image has been saved, while it is being saved, *)
(* or without that, and comes back.                                         *)
Save == /\ disk' \in {cells, None}
        /\ UNCHANGED <<cells, enabled, op, got>>
Restart ==
  /\ Boot(disk)
  /\ UNCHANGED <<got, disk>>

StoreNext ==
  \/ \E o \in Ops : Begin(o)
  \/ Erase \/ Program \/ Enable \/ End \/ Save \/ Restart

StoreSpec == StoreInit /\ [][StoreNext]_svars
=============================================================================

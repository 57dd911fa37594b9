---------------------------- MODULE DurableStore ----------------------------
(***************************************************************************)
(* What the ACL (server/acl/acl.go) promises of its file, without          *)
(* goroutines, counter or mutex.  A running server may change what it      *)
(* holds at any moment and is then behind; it rewrites the file only while *)
(* behind, by erasing it first; and whenever it is not behind, the file is *)
(* what it holds.  It starts from nothing but the file.                    *)
(***************************************************************************)
CONSTANTS
  Content,      \* what a readable file holds
  Restored(_),  \* what a start makes of a file
  Nothing,      \* held by a server that does not run
  Absent,       \* there is no file
  Unreadable    \* the file does not decode

VARIABLES
  server,  \* "down", "creating" (about to write the first file) or "up"
  now,     \* what a save of this moment would write
  disk,    \* the file
  behind   \* the file may differ from what the server holds

vars == <<server, now, disk, behind>>

InStep == ~behind' => disk' = now'

Init == server = "down" /\ now = Nothing /\ disk \in Content \cup {Absent} /\ behind = FALSE

Start ==
  /\ server = "down" /\ server' = "up"
  /\ disk \in Content
  /\ now' = Restored(disk)
  /\ behind' \in BOOLEAN /\ InStep
  /\ UNCHANGED disk

Create ==
  /\ server = "down" /\ server' = "creating"
  /\ disk = Absent
  /\ disk' = Unreadable
  /\ UNCHANGED <<now, behind>>

Created ==
  /\ server = "creating" /\ server' = "up"
  /\ now' \in Content
  /\ disk' \in {now', Unreadable}
  /\ behind' \in BOOLEAN /\ InStep

Change ==
  /\ server = "up"
  /\ now' \in Content
  /\ behind' = TRUE
  /\ UNCHANGED <<server, disk>>

Erase ==
  /\ server = "up"
  /\ behind
  /\ disk' = Unreadable
  /\ UNCHANGED <<server, now, behind>>

Save ==
  /\ server = "up"
  /\ disk = Unreadable
  /\ disk' \in Content
  /\ behind' \in BOOLEAN /\ InStep
  /\ UNCHANGED <<server, now>>

End ==
  /\ server # "down" /\ server' = "down"
  /\ now' = Nothing
  /\ behind' = FALSE
  /\ UNCHANGED disk

Next == Start \/ Create \/ Created \/ Change \/ Erase \/ Save \/ End

Spec == Init /\ [][Next]_vars
=============================================================================

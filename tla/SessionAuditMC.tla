--------------------------- MODULE SessionAuditMC ---------------------------
(***************************************************************************)
(* The three kinds of session the audit queue serves in different ways, in *)
(* the smallest instances that tell them apart, and one whose policy holds *)
(* calls without a name for approval.                                      *)
(***************************************************************************)
EXTENDS SessionAudit

HttpSession ==
  [transport |-> "http", pairing |-> FALSE, required |-> FALSE, cards |-> {1},
   requests |-> 3, nameless |-> FALSE]

PairedSession ==
  [transport |-> "stdio", pairing |-> TRUE, required |-> TRUE, cards |-> {1, 2},
   requests |-> 2, nameless |-> FALSE]

NamelessSession ==
  [transport |-> "stdio", pairing |-> FALSE, required |-> FALSE, cards |-> {},
   requests |-> 1, nameless |-> TRUE]

LegacySession ==
  [transport |-> "stdio", pairing |-> FALSE, required |-> TRUE, cards |-> {1},
   requests |-> 2, nameless |-> FALSE]

AllSessions == {HttpSession, PairedSession, LegacySession}
OnlyNameless == {NamelessSession}

=============================================================================

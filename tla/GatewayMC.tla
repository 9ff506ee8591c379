----------------------------- MODULE GatewayMC ------------------------------
(***************************************************************************)
(* The gateway in front of its listeners (Gateway), and the answer to an   *)
(* initialize as it arrives there (InitWriter).  Gateway takes the answer  *)
(* in one piece and says what follows from it; InitWriter says what comes  *)
(* of its pieces.  They share no state, so a behaviour is about one of     *)
(* them.                                                                   *)
(***************************************************************************)
EXTENDS Gateway

CONSTANTS LF, CR, Result, Error, Comment, BodyLimit, MaxLength

VARIABLES
  subject,    \* "requests" or "answer"
  parsing, held, parser, verdict, overflow, session   \* of InitWriter

W == INSTANCE InitWriter

writer == <<parsing, held, parser, verdict, overflow, session>>
all == <<subject, vars, writer>>

InitBoth ==
  /\ Init /\ W!Init
  /\ \/ subject = "requests" /\ parsing = "buffer"
     \/ subject = "answer" /\ required /\ hosted

NextBoth ==
  /\ UNCHANGED subject
  /\ \/ subject = "requests" /\ Next /\ UNCHANGED writer
     \/ subject = "answer" /\ W!Next /\ UNCHANGED vars

SpecBoth == InitBoth /\ [][NextBoth]_all

-----------------------------------------------------------------------------
(***************************************************************************)
(* However the answer to an initialize is cut into chunks on its way, the  *)
(* client is given its session on the first answer in it alone; the one    *)
(* exception is InitWriter's.                                              *)
(***************************************************************************)
CutsDoNotMatter == W!CutsDoNotMatter

=============================================================================

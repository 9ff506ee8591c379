------------------------------ MODULE ReadSide ------------------------------
(***************************************************************************)
(* What is decided about a trail by those who only read it.  verify        *)
(* --completeness (runAudit, cmd/nockguard/main.go) first takes a snapshot *)
(* and verifies its chain, as the readers of Wall do beside the writers,   *)
(* and then judges the runs in it with AssessRuns (CompletenessMC).  The   *)
(* second part sees only the snapshot, the NockLock log shares no file     *)
(* with the trail, and the poller of that log shares nothing with those    *)
(* who ask: a behaviour is about one of the four subjects, and the rest    *)
(* stays as it was.                                                        *)
(***************************************************************************)
EXTENDS Wall, TLC

CONSTANTS NoAction, Actions, MaxStream, Now, Times   \* of CompletenessMC

ASSUME StreamTimes == Now \in Int /\ Times \subseteq Int

VARIABLES
  subject,          \* "trail", "log", "poller" or "run"
  stream, spoiled   \* of CompletenessMC

C == INSTANCE CompletenessMC WITH rows <- stream, damaged <- spoiled, MaxRows <- MaxStream

run == <<stream, spoiled>>
all == <<subject, vars, run>>

\* Who asks what beside whom.
WallScenes ==
  LET Scene(setup, chain, kinds) == [setup |-> setup, chain |-> chain, kinds |-> kinds] IN
  {Scene("both", "PROTECTED", kinds) : kinds \in
     {{"poll", "connect"}, {"export", "proof"}, {"verify"}, {"complete"}, {"session"}}}
  \cup {Scene("none", "PROTECTED", {"export"}), Scene("hmac", "PROTECTED", {"export"}),
        Scene("both", "UNSIGNED", {"session"})}

InitReadSide ==
  /\ Init /\ C!Init
  /\ \/ subject = "trail" /\ trail = <<>> /\ fence # <<>>
     \/ subject = "log" /\ trail # <<>> /\ fence = <<>> /\ "export" \notin scene.kinds
     \/ subject = "poller" /\ trail = <<>> /\ scene.kinds = {"poll", "connect"}
     \/ subject = "run" /\ trail = <<>> /\ fence = <<>> /\ scene.kinds = {"poll", "connect"}

NextReadSide ==
  /\ UNCHANGED subject
  /\ \/ subject = "trail" /\ (Writer \/ Tick) /\ Silent /\ UNCHANGED run
     \/ subject = "log" /\ (LockLog \/ Tick) /\ Silent /\ UNCHANGED run
     \/ subject = "poller" /\ (LockLog \/ tailLock) /\ Silent /\ UNCHANGED run
     \/ subject \in {"trail", "log"} /\ (\E c \in Readers : Request(c)) /\ UNCHANGED run
     \/ subject = "run" /\ C!Next /\ UNCHANGED vars

SpecReadSide == InitReadSide /\ [][NextReadSide]_all

ReadersAlike == Permutations(Readers)

-----------------------------------------------------------------------------
(***************************************************************************)
(* The one-pass assessment gives its best verdict exactly to the streams   *)
(* the design calls complete, on a checkpointed trail whose heartbeats are *)
(* not in the future.                                                      *)
(***************************************************************************)
LimitedMeansComplete == subject = "run" => C!LimitedMeansComplete

(***************************************************************************)
(* A broken stream stays broken whatever rows are appended to it: a writer *)
(* cannot repair the record of a run afterwards.                           *)
(***************************************************************************)
BrokenForGood == C!BrokenForGood

=============================================================================
